---- MODULE Spec2Model ----
(***************************************************************************)
(* Model of the to-do store: the JSON persistence helpers (todo.Save,      *)
(* todo.Load), the actor store built on them (service.ActorStore) and the  *)
(* plain call-through use of the helpers by concurrent goroutines.         *)
(*                                                                         *)
(* Go slices are modelled with an explicit heap: a slice is a header       *)
(* (nil flag, backing array address, length) and the items live in         *)
(* heap[address], so that sharing a backing array is visible.              *)
(* A file is a sequence of JSON tokens; os.WriteFile is modelled by its    *)
(* system calls (open with O_TRUNC, write at offset 0, close).             *)
(***************************************************************************)
EXTENDS Integers, Sequences, FiniteSets, TLC

\* ------------------------------------------------------------------ bounds

\* Number of goroutines that call the store; each makes one call.
NumCallers == 3

\* Number of them that run when contexts are cancelled, when callers change
\* their lists, and when the store is closed.
CancelCallers == 2
AliasCallers == 2
CloseCallers == 1
StartupCallers == 2
StoreCallers == 2
HttpCallers == 1
RecloseCallers == 1
RaceCallers == 2

\* Number of todo function calls the editing goroutine makes, and the
\* largest ID it asks for.
MaxCalls == 3
MaxId == 4

Callers == 1..NumCallers

VARIABLES
    file,       \* the JSON file: [exists, data]
    wr,         \* per request: state of the os.WriteFile in progress for it
    heap,       \* backing arrays of all slices
    wpc,        \* ActorStore.loop: position of the worker goroutine
    cur,        \* ActorStore.loop: the message being serviced
    snapshot,   \* ActorStore.loop: the goroutine-owned slice
    serr,       \* ActorStore.loop: err returned by todo.Save
    cpc,        \* per caller: position inside Load/Save
    cop,        \* per caller: which call it is in
    cancelled,  \* per caller: "no", or when ctx.Done() of its context was closed:
                \* "queued" (the request not yet handed to the worker) or
                \* "handed" (after the worker took the request)
    mbox,       \* per caller: the reply channel (capacity 1) of the call
    cres,       \* per caller: what the last call returned
    clist,      \* per caller: the slice it passed to Save / got from Load
    creq,       \* per caller: the setReq.list built by Save
    kpc,        \* Close: position of the closing goroutine
    doneClosed, \* stopReq.done is closed
    quitClosed, \* ActorStore.quit is closed
    hist,       \* history: the list values installed as snapshot, in order
    floor,      \* per caller: newest version whose Save had returned nil when the Load was issued
    gotVer,     \* per caller: version of the snapshot when the worker replied to it, else -1
    nilVer,     \* newest version whose Save has returned nil
    sentVal,    \* per caller: the list value passed to the current Save
    wstat,      \* per caller: outcome of the disk write for its request
    nonNil,     \* some Save has returned a non-nil error
    live,       \* the callers that take part
    fres,        \* per caller: what its last direct todo.Load returned
    dom,        \* the goroutine that edits a list with the todo functions
    web         \* per goroutine: the HTTP request it serves and its response

vars == <<file, wr, heap, wpc, cur, snapshot, serr, cpc, cop, cancelled, mbox,
          cres, clist, creq, kpc, doneClosed, quitClosed, hist, floor,
          gotVer, nilVer, sentVal, wstat, nonNil, live, fres, dom, web>>

\* ------------------------------------------------------------------ items

\* time.Now() carries a monotonic clock reading; a time that went through
\* JSON (RFC3339Nano) keeps the wall instant and has none.
Time(wall, mono) == [wall |-> wall, mono |-> mono]

MkItem(id, desc, status, created) ==
    [id |-> id, desc |-> desc, status |-> status, created |-> created]

StatusNotStarted == "not started"
StatusStarted == "started"
StatusCompleted == "completed"

\* Descriptions that tell the callers' payloads apart.
Names == <<"a", "b", "c", "d", "e", "f">>

\* The list of a writer: as in the tests, IDs 1..n, size varying with the
\* writer, all items created with time.Now().
sampleLen(p) == ((p - 1) % 3) + 1

sampleItems(p) ==
    [i \in 1..sampleLen(p) |->
        MkItem(i, Names[p], StatusNotStarted, Time(i, TRUE))]

\* The seed written before the concurrent phase.
SeedItems == <<MkItem(1, "seed", StatusNotStarted, Time(1, FALSE))>>

\* Item equality as the tests compare items: same instant (time.Equal),
\* same other fields.
ItemSame(x, y) ==
    /\ x.id = y.id
    /\ x.desc = y.desc
    /\ x.status = y.status
    /\ x.created.wall = y.created.wall

ListSame(xs, ys) ==
    /\ Len(xs) = Len(ys)
    /\ \A i \in 1..Len(xs) : ItemSame(xs[i], ys[i])

\* ------------------------------------------------------------------ slices

\* A list value, as a caller sees it: nil or not, and the items.
Val(isNil, items) == [nil |-> isNil, items |-> items]

NilVal == Val(TRUE, <<>>)
EmptyVal == Val(FALSE, <<>>)

Sites == {"arg", "msg", "snap", "reply", "load", "grow1", "grow2"}
NilAddr == <<0, "nil">>
Addrs == ((Callers \cup {0}) \X Sites) \cup {NilAddr}

\* A slice header. The code never reslices from a non-zero offset.
Slice(isNil, arr, len) == [nil |-> isNil, arr |-> arr, len |-> len]
NilSlice == Slice(TRUE, NilAddr, 0)

\* The value a slice denotes in heap h.
Deref(h, s) == Val(s.nil, SubSeq(h[s.arr], 1, s.len))

\* A slice literal / make([]Item, n) filled with items, allocated at a.
Alloc(h, a, items) ==
    [heap |-> [h EXCEPT ![a] = items], out |-> Slice(FALSE, a, Len(items))]

\* cloneList shares the backing array instead of copying it.
cloneList_shared(h, in, a) == [heap |-> h, out |-> in]

\* out := append([]todo.Item(nil), in...): nil when in is empty.
cloneList_append(h, in, a) ==
    IF in.len = 0 THEN [heap |-> h, out |-> [nil |-> TRUE, arr |-> in.arr, len |-> 0]]
    ELSE [heap |-> [h EXCEPT ![a] = SubSeq(h[in.arr], 1, in.len)],
          out |-> [nil |-> FALSE, arr |-> a, len |-> in.len]]

\* cloneList: out := make([]Item, len(in)); copy(out, in). The result is
\* never nil; a is the address of the new array.
cloneList(h, in, a) == Alloc(h, a, SubSeq(h[in.arr], 1, in.len))

\* ------------------------------------------------------------------ codec

NoItem == MkItem(0, "", "", Time(0, FALSE))
Tok(kind, item) == [kind |-> kind, item |-> item]
LB == Tok("[", NoItem)
RB == Tok("]", NoItem)
Comma == Tok(",", NoItem)
Null == Tok("null", NoItem)

\* Time.MarshalJSON writes RFC3339Nano: the wall instant, no monotonic part.
MarshalItem(it) ==
    Tok("item", MkItem(it.id, it.desc, it.status, Time(it.created.wall, FALSE)))

RECURSIVE MarshalItems(_)
MarshalItems(items) ==
    IF Len(items) = 0 THEN <<>>
    ELSE IF Len(items) = 1 THEN <<MarshalItem(items[1])>>
    ELSE <<MarshalItem(items[1]), Comma>> \o MarshalItems(Tail(items))

\* json.MarshalIndent(list, "", "  "): a nil slice is "null", an empty one "[]".
Marshal(v) ==
    IF v.nil THEN <<Null>> ELSE <<LB>> \o MarshalItems(v.items) \o <<RB>>

\* The tokens between the brackets are item, comma, item, ..., item.
WellFormedInner(inner) ==
    \/ Len(inner) = 0
    \/ /\ Len(inner) % 2 = 1
       /\ \A i \in 1..Len(inner) :
            inner[i].kind = (IF i % 2 = 1 THEN "item" ELSE ",")

\* json.Unmarshal(b, &list) with list a nil slice.
Unmarshal(data) ==
    IF data = <<Null>> THEN [ok |-> TRUE, val |-> NilVal]
    ELSE IF /\ Len(data) >= 2
            /\ data[1] = LB
            /\ data[Len(data)] = RB
            /\ WellFormedInner(SubSeq(data, 2, Len(data) - 1))
    THEN LET inner == SubSeq(data, 2, Len(data) - 1)
             n == (Len(inner) + 1) \div 2
         IN [ok |-> TRUE,
             val |-> Val(FALSE, [i \in 1..n |-> inner[2 * i - 1].item])]
    ELSE [ok |-> FALSE, val |-> NilVal]

\* ------------------------------------------------------------------ file

\* A path: whether a file is there, its bytes, whether os.ReadFile can
\* read it (it cannot read a file without read permission, or a directory),
\* and its parent directory: "found" when it was there, "none" when it is
\* not, "made" when os.MkdirAll created it.
File(exists, data) ==
    [exists |-> exists, data |-> data, readable |-> TRUE, dir |-> "found"]
MissingFile == File(FALSE, <<>>)
NoDirFile == [MissingFile EXCEPT !.dir = "none"]

\* The directory is not created.
ensureParentDir_skip(f) == f

\* ensureParentDir: os.MkdirAll(filepath.Dir(path), 0o755).
ensureParentDir(f) == IF f.dir = "none" THEN [f EXCEPT !.dir = "made"] ELSE f

\* A zero-byte file is handed to json.Unmarshal.
TodoLoad_strict(f) ==
    IF ~f.exists THEN [err |-> "nil", val |-> EmptyVal]
    ELSE IF ~f.readable THEN [err |-> "read", val |-> NilVal]
    ELSE LET u == Unmarshal(f.data)
         IN IF u.ok THEN [err |-> "nil", val |-> u.val]
            ELSE [err |-> "decode", val |-> NilVal]

\* todo.Load: a missing file and a zero-byte file are an empty list; a
\* document that does not parse is an error and a nil list.
TodoLoad(f) ==
    IF ~f.exists THEN [err |-> "nil", val |-> EmptyVal]
    ELSE IF ~f.readable THEN [err |-> "read", val |-> NilVal]
    ELSE IF Len(f.data) = 0 THEN [err |-> "nil", val |-> EmptyVal]
    ELSE LET u == Unmarshal(f.data)
         IN IF u.ok THEN [err |-> "nil", val |-> u.val]
            ELSE [err |-> "decode", val |-> NilVal]

\* The file is opened without O_TRUNC.
OpenTrunc_keep(f) == File(TRUE, f.data)

\* os.OpenFile(path, O_WRONLY|O_CREATE|O_TRUNC): the file exists and is empty.
OpenTrunc(f) == [f EXCEPT !.exists = TRUE, !.data = <<>>]

\* f.Write(data) on a descriptor at offset 0: the bytes replace the first
\* len(data) bytes of whatever the file holds by now.
WriteAt(f, buf) ==
    [f EXCEPT !.exists = TRUE,
              !.data = buf \o SubSeq(f.data, Len(buf) + 1, Len(f.data))]

\* State of one os.WriteFile call.
NoWrite == [st |-> "none", buf |-> <<>>]
OpenWrite(buf) == [st |-> "open", buf |-> buf]

\* ------------------------------------------------------------------ todo: domain functions

\* The description is not trimmed.
TrimSpace_same(s) == s

\* strings.TrimSpace, on the descriptions used here.
TrimSpace(s) ==
    CASE s = " " -> ""
      [] s = " tea " -> "tea"
      [] OTHER -> s

\* strings.ToLower, on the statuses used here.
ToLower(s) ==
    CASE s = "StArTeD" -> "started"
      [] s = "COMPLETED" -> "completed"
      [] OTHER -> s

\* What callers pass as description and as status.
Descs == {"", " ", "milk", " tea "}
Statuses == {"not started", "StArTeD", "COMPLETED", "done", ""}

\* The status is compared without lowering it first.
Validate_exact(st) ==
    IF st \in {StatusNotStarted, StatusStarted, StatusCompleted}
    THEN "nil" ELSE "invalid status"

\* Status.Validate: nil, or the error.
Validate(st) ==
    IF ToLower(st) \in {StatusNotStarted, StatusStarted, StatusCompleted}
    THEN "nil" ELSE "invalid status"

\* The loop keeps the ID it saw last, not the largest.
RECURSIVE MaxIDFrom_last(_, _)
MaxIDFrom_last(items, max) ==
    IF items = <<>> THEN max
    ELSE MaxIDFrom_last(Tail(items), Head(items).id)

\* getNextID, the loop: the largest ID seen so far, starting from 0.
RECURSIVE MaxIDFrom(_, _)
MaxIDFrom(items, max) ==
    IF items = <<>> THEN max
    ELSE MaxIDFrom(Tail(items), IF Head(items).id > max THEN Head(items).id ELSE max)

\* The next ID is taken from the length of the list.
getNextID_len(h, list) == list.len + 1

\* getNextID: max + 1.
getNextID(h, list) == MaxIDFrom(Deref(h, list).items, 0) + 1

\* for i := range list { if list[i].ID == id ...: the first index with that
\* ID, 0 when the loop ends without one.
IndexOf(h, list, id) ==
    LET items == Deref(h, list).items
        hits == {i \in 1..Len(items) : items[i].id = id}
    IN IF hits = {} THEN 0 ELSE CHOOSE i \in hits : \A j \in hits : i <= j

\* What a todo function returns; item is Item{} except after a successful Add.
Ret(h, out, item, err) == [heap |-> h, out |-> out, item |-> item, err |-> err]

\* The capacity append gives a new backing array: 1, then doubling.
GrowCap(old) == IF old = 0 THEN 1 ELSE 2 * old

\* append(list, item): in place when the backing array has room, else into a
\* new array (at address a) that holds a copy of the items.
AppendItem(h, list, item, a) ==
    IF list.len < Len(h[list.arr])
    THEN [heap |-> [h EXCEPT ![list.arr][list.len + 1] = item],
          out |-> Slice(FALSE, list.arr, list.len + 1)]
    ELSE [heap |-> [h EXCEPT ![a] =
                      [i \in 1..GrowCap(list.len) |->
                          IF i <= list.len THEN h[list.arr][i]
                          ELSE IF i = list.len + 1 THEN item
                          ELSE NoItem]],
          out |-> Slice(FALSE, a, list.len + 1)]

\* The status is validated before the description.
Add_status_first(h, list, desc, status, now, a) ==
    LET d == TrimSpace(desc)
    IN IF Validate(status) # "nil" THEN Ret(h, list, NoItem, Validate(status))
       ELSE IF d = "" THEN Ret(h, list, NoItem, "empty description")
       ELSE LET item == MkItem(getNextID(h, list), d, ToLower(status), Time(now, TRUE))
                app == AppendItem(h, list, item, a)
            IN Ret(app.heap, app.out, item, "nil")

\* Add(list, desc, status); now is what time.Now() returns.
Add(h, list, desc, status, now, a) ==
    LET d == TrimSpace(desc)
    IN IF d = "" THEN Ret(h, list, NoItem, "empty description")
       ELSE IF Validate(status) # "nil" THEN Ret(h, list, NoItem, Validate(status))
       ELSE LET item == MkItem(getNextID(h, list), d, ToLower(status), Time(now, TRUE))
                app == AppendItem(h, list, item, a)
            IN Ret(app.heap, app.out, item, "nil")

\* The status is validated after it was written.
UpdateStatus_late(h, list, id, st) ==
    LET i == IndexOf(h, list, id)
        h2 == IF i = 0 THEN h ELSE [h EXCEPT ![list.arr][i].status = ToLower(st)]
    IN IF Validate(st) # "nil" THEN Ret(h2, list, NoItem, Validate(st))
       ELSE IF i = 0 THEN Ret(h, list, NoItem, "not found")
       ELSE Ret(h2, list, NoItem, "nil")

\* UpdateStatus(list, id, s)
UpdateStatus(h, list, id, st) ==
    IF Validate(st) # "nil" THEN Ret(h, list, NoItem, Validate(st))
    ELSE LET i == IndexOf(h, list, id)
         IN IF i = 0 THEN Ret(h, list, NoItem, "not found")
            ELSE Ret([h EXCEPT ![list.arr][i].status = ToLower(st)], list, NoItem, "nil")

\* The description is written to the matched item and to every item behind
\* it.
UpdateDescription_every(h, list, id, newDesc) ==
    LET d == TrimSpace(newDesc)
    IN IF d = "" THEN Ret(h, list, NoItem, "empty description")
       ELSE LET i == IndexOf(h, list, id)
            IN IF i = 0 THEN Ret(h, list, NoItem, "not found")
               ELSE Ret([h EXCEPT ![list.arr] =
                            [k \in 1..Len(h[list.arr]) |->
                                IF k >= i /\ k <= list.len
                                THEN [h[list.arr][k] EXCEPT !.desc = d]
                                ELSE h[list.arr][k]]],
                        list, NoItem, "nil")

\* UpdateDescription(list, id, newDesc)
UpdateDescription(h, list, id, newDesc) ==
    LET d == TrimSpace(newDesc)
    IN IF d = "" THEN Ret(h, list, NoItem, "empty description")
       ELSE LET i == IndexOf(h, list, id)
            IN IF i = 0 THEN Ret(h, list, NoItem, "not found")
               ELSE Ret([h EXCEPT ![list.arr][i].desc = d], list, NoItem, "nil")

\* An ID that is not there is deleted without an error.
Delete_quiet(h, list, id) ==
    LET i == IndexOf(h, list, id)
    IN IF i = 0 THEN Ret(h, list, NoItem, "nil")
       ELSE Ret([h EXCEPT ![list.arr] =
                    [k \in 1..Len(h[list.arr]) |->
                        IF k >= i /\ k < list.len THEN h[list.arr][k + 1]
                        ELSE h[list.arr][k]]],
                Slice(FALSE, list.arr, list.len - 1), NoItem, "nil")

\* The last item is moved into the place of the deleted one.
Delete_swap(h, list, id) ==
    LET i == IndexOf(h, list, id)
    IN IF i = 0 THEN Ret(h, list, NoItem, "not found")
       ELSE Ret([h EXCEPT ![list.arr][i] = h[list.arr][list.len]],
                Slice(FALSE, list.arr, list.len - 1), NoItem, "nil")

\* Delete(list, id): append(list[:i], list[i+1:]...) moves the items behind
\* i one place down in the same backing array and returns it one shorter.
Delete(h, list, id) ==
    LET i == IndexOf(h, list, id)
    IN IF i = 0 THEN Ret(h, list, NoItem, "not found")
       ELSE Ret([h EXCEPT ![list.arr] =
                    [k \in 1..Len(h[list.arr]) |->
                        IF k >= i /\ k < list.len THEN h[list.arr][k + 1]
                        ELSE h[list.arr][k]]],
                Slice(FALSE, list.arr, list.len - 1), NoItem, "nil")

\* The goroutine that edits.
Editor == 1

\* dom: the call made last (op, its arguments, the list header and the list
\* value passed in, the item and the error returned), the number of calls,
\* the clock behind time.Now(), and the IDs the Adds have assigned so far.
NoDom ==
    [op |-> "none", id |-> 0, desc |-> "", status |-> "",
     in |-> NilSlice, prev |-> NilVal, item |-> NoItem, err |-> "none",
     calls |-> 0, now |-> 1, assigned |-> <<>>]

\* No request yet. pc is the position in the handler, req the decoded
\* request, status the status code written (0: none), saved what became of
\* the handler's call of Save.
NoReq == [route |-> "none", method |-> "GET", json |-> TRUE, q |-> "num",
          id |-> 0, desc |-> "none", status |-> "none"]
NoWeb == [impl |-> "httpapi", pc |-> "idle", req |-> NoReq, status |-> 0, saved |-> "no",
          id |-> 0]

\* ------------------------------------------------------------------ actor store: callers

\* A reply channel of capacity 1: empty, or holding the worker's reply
\* (ver: the version of the snapshot the reply belongs to, for the history).
EmptyBox == [full |-> FALSE, list |-> NilSlice, err |-> "nil", ver |-> 0]
FullBox(list, err, ver) == [full |-> TRUE, list |-> list, err |-> err, ver |-> ver]

NoMsg == [p |-> 0, op |-> "none", list |-> NilSlice, sent |-> NilVal]

Max(a, b) == IF a >= b THEN a ELSE b

\* Load, up to the first select: reply := make(chan []todo.Item, 1).
StartLoad(p) ==
    /\ p \in live
    /\ cpc[p] = "idle"
    /\ cpc' = [cpc EXCEPT ![p] = "select1"]
    /\ cop' = [cop EXCEPT ![p] = "load"]
    /\ cancelled' = [cancelled EXCEPT ![p] = "no"]
    /\ mbox' = [mbox EXCEPT ![p] = EmptyBox]
    /\ cres' = [cres EXCEPT ![p] = "pending"]
    /\ clist' = [clist EXCEPT ![p] = NilSlice]
    /\ creq' = [creq EXCEPT ![p] = NilSlice]
    /\ floor' = [floor EXCEPT ![p] = nilVer]
    /\ gotVer' = [gotVer EXCEPT ![p] = -1]
    /\ UNCHANGED <<file, wr, heap, wpc, cur, snapshot, serr, kpc, doneClosed,
                   quitClosed, hist, nilVer, sentVal, wstat, nonNil, live, fres, dom, web>>

\* Save, up to the first select: the caller's list is built, and
\* cloneList(list) is evaluated on entering the select.
StartSaveList(p, v) ==
    /\ p \in live
    /\ cpc[p] = "idle"
    /\ LET own == IF v.nil THEN [heap |-> heap, out |-> NilSlice]
                  ELSE Alloc(heap, <<p, "arg">>, v.items)
           msg == cloneList(own.heap, own.out, <<p, "msg">>)
       IN /\ heap' = msg.heap
          /\ clist' = [clist EXCEPT ![p] = own.out]
          /\ creq' = [creq EXCEPT ![p] = msg.out]
          /\ sentVal' = [sentVal EXCEPT ![p] = Deref(own.heap, own.out)]
    /\ cpc' = [cpc EXCEPT ![p] = "select1"]
    /\ cop' = [cop EXCEPT ![p] = "save"]
    /\ cancelled' = [cancelled EXCEPT ![p] = "no"]
    /\ mbox' = [mbox EXCEPT ![p] = EmptyBox]
    /\ cres' = [cres EXCEPT ![p] = "pending"]
    /\ gotVer' = [gotVer EXCEPT ![p] = -1]
    /\ UNCHANGED <<file, wr, wpc, cur, snapshot, serr, kpc, doneClosed,
                   quitClosed, hist, floor, nilVer, wstat, nonNil, live, fres, dom, web>>

\* The writers of the tests save sampleItems.
StartSave(p) == StartSaveList(p, Val(FALSE, sampleItems(p)))

\* The context of a call in progress is cancelled (or its deadline passes).
Cancel(p) ==
    /\ cpc[p] \in {"select1", "select2"}
    /\ cancelled[p] = "no"
    /\ cancelled' = [cancelled EXCEPT ![p] =
            IF cpc[p] = "select1" THEN "queued" ELSE "handed"]
    /\ UNCHANGED <<file, wr, heap, wpc, cur, snapshot, serr, cpc, cop, mbox,
                   cres, clist, creq, kpc, doneClosed, quitClosed, hist, floor, gotVer, nilVer, sentVal, wstat, nonNil, live, fres, dom, web>>

\* The worker receives while it is still writing the file.
Receiving_busy == wpc \in {"select", "w_open", "w_write"}

\* The worker receives from cmds before its startup load.
Receiving_early == wpc \in {"boot", "select"}

\* Something still receives from cmds after the worker has returned.
Receiving_exited == wpc \in {"select", "exited"}

\* The worker is at `case msg := <-s.cmds`: cmds is unbuffered, so a send
\* completes only then.
Receiving == wpc = "select"

\* First select of Load/Save, case s.cmds <- req: the worker takes the message.
Handoff(p) ==
    /\ cpc[p] = "select1"
    /\ Receiving
    /\ cur' = [p |-> p, op |-> cop[p], list |-> creq[p], sent |-> sentVal[p]]
    /\ wpc' = IF cop[p] = "load" THEN "get" ELSE "set"
    /\ cpc' = [cpc EXCEPT ![p] = "select2"]
    /\ wstat' = [wstat EXCEPT ![p] = "none"]
    /\ UNCHANGED <<file, wr, heap, snapshot, serr, cop, cancelled, mbox, cres,
                   clist, creq, kpc, doneClosed, quitClosed, hist,
                   floor, gotVer, nilVer, sentVal, nonNil, live, fres, dom, web>>

\* ctx.Err() of a context that is done: context.Canceled or DeadlineExceeded.
CtxErr == "cancelled"

\* Either select of Load/Save, case <-ctx.Done(): return ctx.Err().
\* Load returns a nil list with it.
ReturnCancelled(p) ==
    /\ cpc[p] \in {"select1", "select2"}
    /\ cancelled[p] # "no"
    /\ cpc' = [cpc EXCEPT ![p] = "done"]
    /\ cres' = [cres EXCEPT ![p] = CtxErr]
    /\ mbox' = [mbox EXCEPT ![p] = EmptyBox]
    /\ clist' = [clist EXCEPT ![p] = IF cop[p] = "load" THEN NilSlice ELSE @]
    /\ nonNil' = (nonNil \/ cop[p] = "save")
    /\ UNCHANGED <<file, wr, heap, wpc, cur, snapshot, serr, cop, cancelled,
                   creq, kpc, doneClosed, quitClosed, hist,
                   floor, gotVer, nilVer, sentVal, wstat, live, fres, dom, web>>

\* Second select of Load, case list := <-reply: return list, nil.
ReturnLoad(p) ==
    /\ cpc[p] = "select2"
    /\ cop[p] = "load"
    /\ mbox[p].full
    /\ cpc' = [cpc EXCEPT ![p] = "done"]
    /\ cres' = [cres EXCEPT ![p] = "nil"]
    /\ clist' = [clist EXCEPT ![p] = mbox[p].list]
    /\ mbox' = [mbox EXCEPT ![p] = EmptyBox]
    /\ UNCHANGED <<file, wr, heap, wpc, cur, snapshot, serr, cop, cancelled,
                   creq, kpc, doneClosed, quitClosed, hist, floor,
                   gotVer, nilVer, sentVal, wstat, nonNil, live, fres, dom, web>>

\* Second select of Save, case err := <-reply: return err.
ReturnSave(p) ==
    /\ cpc[p] = "select2"
    /\ cop[p] = "save"
    /\ mbox[p].full
    /\ cpc' = [cpc EXCEPT ![p] = "done"]
    /\ cres' = [cres EXCEPT ![p] = mbox[p].err]
    /\ nilVer' = IF mbox[p].err = "nil" THEN Max(nilVer, mbox[p].ver) ELSE nilVer
    /\ nonNil' = (nonNil \/ mbox[p].err # "nil")
    /\ mbox' = [mbox EXCEPT ![p] = EmptyBox]
    /\ UNCHANGED <<file, wr, heap, wpc, cur, snapshot, serr, cop, cancelled,
                   clist, creq, kpc, doneClosed, quitClosed, hist,
                   floor, gotVer, sentVal, wstat, live, fres, dom, web>>

\* The description a caller writes into a list it holds.
Changed == "changed"

\* A caller changes the first item of the list it holds: the list it passed
\* to Save (any time after Save took it) or the list Load returned.
Mutate(p) ==
    /\ ~clist[p].nil
    /\ clist[p].len >= 1
    /\ heap[clist[p].arr][1].desc # Changed
    /\ heap' = [heap EXCEPT ![clist[p].arr][1].desc = Changed]
    /\ UNCHANGED <<file, wr, wpc, cur, snapshot, serr, cpc, cop, cancelled,
                   mbox, cres, clist, creq, kpc, doneClosed, quitClosed,
                   hist, floor, gotVer, nilVer, sentVal, wstat,
                   nonNil, live, fres, dom, web>>

\* ------------------------------------------------------------------ actor store: worker

\* The context of message m is done. A caller that no longer waits for the
\* reply of m has returned through <-ctx.Done(), and a context stays done.
CtxDone(m) == IF cpc[m.p] = "select2" THEN cancelled[m.p] # "no" ELSE TRUE

\* todo.Save gives up when its context is done.
CtxStopsSave_checked(done) == done

\* todo.Save hands ctx to slog only: it never reads ctx.Done() or ctx.Err().
CtxStopsSave(done) == FALSE

\* A failed startup load ends the worker.
BootNext_fatal(r) == IF r.err # "nil" THEN "exited" ELSE "select"

\* loop, after the startup load: the error is logged and the for loop is
\* entered whatever todo.Load returned.
BootNext(r) == "select"

\* loop, before the for: list, err := todo.Load(ctx, s.path); on an error
\* list = []todo.Item{}; snapshot = cloneList(list).
WorkerBoot ==
    /\ wpc = "boot"
    /\ LET r == TodoLoad(file)
           v == IF r.err # "nil" THEN EmptyVal ELSE r.val
           list == IF v.nil THEN [heap |-> heap, out |-> NilSlice]
                   ELSE Alloc(heap, <<0, "load">>, v.items)
           snap == cloneList(list.heap, list.out, <<0, "snap">>)
       IN /\ heap' = snap.heap
          /\ snapshot' = snap.out
          /\ hist' = <<Val(FALSE, v.items)>>
    /\ wpc' = BootNext(TodoLoad(file))
    /\ UNCHANGED <<file, wr, cur, serr, cpc, cop, cancelled, mbox, cres, clist,
                   creq, kpc, doneClosed, quitClosed, floor, gotVer,
                   nilVer, sentVal, wstat, nonNil, live, fres, dom, web>>

\* The reply channel is unbuffered: a send completes only while the caller
\* is still receiving.
ReplyReady_unbuffered(m) == cpc[m.p] = "select2"

\* m.reply <- v can proceed: every call makes its own reply channel with
\* capacity 1, and the worker sends on it once.
ReplyReady(m) == TRUE

\* The reply of message m reaches its caller's reply channel if the caller
\* still holds that channel; the channel of an abandoned call is garbage.
Deliver(m, box) ==
    IF cpc[m.p] = "select2" THEN [mbox EXCEPT ![m.p] = box] ELSE mbox

\* case getReq reads the file again and replies with what it holds, with
\* the snapshot when it cannot be read.
WorkerGet_reread ==
    /\ wpc = "get"
    /\ ReplyReady(cur)
    /\ LET r == TodoLoad(file)
           items == IF r.err # "nil" THEN Deref(heap, snapshot).items ELSE r.val.items
           c == Alloc(heap, <<cur.p, "reply">>, items)
       IN /\ heap' = c.heap
          /\ mbox' = Deliver(cur, FullBox(c.out, "nil", Len(hist)))
    /\ gotVer' = [gotVer EXCEPT ![cur.p] = IF cpc[cur.p] = "select2" THEN Len(hist) ELSE @]
    /\ wpc' = "select"
    /\ cur' = NoMsg
    /\ UNCHANGED <<file, wr, snapshot, serr, cpc, cop, cancelled, cres, clist,
                   creq, kpc, doneClosed, quitClosed, hist, floor,
                   nilVer, sentVal, wstat, nonNil, live, fres, dom, web>>

\* case getReq: m.reply <- cloneList(snapshot)
WorkerGet ==
    /\ wpc = "get"
    /\ ReplyReady(cur)
    /\ LET c == cloneList(heap, snapshot, <<cur.p, "reply">>)
       IN /\ heap' = c.heap
          /\ mbox' = Deliver(cur, FullBox(c.out, "nil", Len(hist)))
    /\ gotVer' = [gotVer EXCEPT ![cur.p] = IF cpc[cur.p] = "select2" THEN Len(hist) ELSE @]
    /\ wpc' = "select"
    /\ cur' = NoMsg
    /\ UNCHANGED <<file, wr, snapshot, serr, cpc, cop, cancelled, cres, clist,
                   creq, kpc, doneClosed, quitClosed, hist, floor,
                   nilVer, sentVal, wstat, nonNil, live, fres, dom, web>>

\* The worker keeps its old snapshot.
NewSnapshot_kept(h, m, a) == [heap |-> h, out |-> snapshot]

\* The worker appends the new list to its snapshot.
NewSnapshot_appended(h, m, a) ==
    Alloc(h, a, Deref(h, snapshot).items \o Deref(h, m.list).items)

\* The worker leaves its snapshot alone when the context of the request is
\* done.
NewSnapshot_live(h, m, a) ==
    IF CtxDone(m) THEN [heap |-> h, out |-> snapshot] ELSE cloneList(h, m.list, a)

\* case setReq: the new value of snapshot, cloneList(m.list).
NewSnapshot(h, m, a) == cloneList(h, m.list, a)

\* case setReq: snapshot = cloneList(m.list)
WorkerSet ==
    /\ wpc = "set"
    /\ LET c == NewSnapshot(heap, cur, <<cur.p, "snap">>)
       IN /\ heap' = c.heap
          /\ snapshot' = c.out
    /\ hist' = Append(hist, cur.sent)
    /\ wpc' = "save"
    /\ UNCHANGED <<file, wr, cur, serr, cpc, cop, cancelled, mbox, cres, clist,
                   creq, kpc, doneClosed, quitClosed, floor, gotVer,
                   nilVer, sentVal, wstat, nonNil, live, fres, dom, web>>

\* todo.Save, steps 1 and 2: ensureParentDir, json.MarshalIndent.
WorkerSave ==
    /\ wpc = "save"
    /\ \/ /\ wr' = [wr EXCEPT ![cur.p] =
                      [st |-> "marshalled", buf |-> Marshal(Deref(heap, snapshot))]]
          /\ wpc' = "w_open"
          /\ UNCHANGED <<serr, wstat>>
       \/ /\ serr' = "io"
          /\ wstat' = [wstat EXCEPT ![cur.p] = "failed"]
          /\ wpc' = "set_reply"
          /\ UNCHANGED wr
    /\ UNCHANGED <<file, heap, cur, snapshot, cpc, cop, cancelled, mbox, cres,
                   clist, creq, kpc, doneClosed, quitClosed, hist,
                   floor, gotVer, nilVer, sentVal, nonNil, live, fres, dom, web>>

\* todo.Save, step 3, os.WriteFile: the open with O_TRUNC.
WorkerOpen ==
    /\ wpc = "w_open"
    /\ \/ /\ file' = OpenTrunc(file)
          /\ wr' = [wr EXCEPT ![cur.p] = OpenWrite(@.buf)]
          /\ wpc' = "w_write"
          /\ UNCHANGED <<serr, wstat>>
       \/ /\ serr' = "io"
          /\ wstat' = [wstat EXCEPT ![cur.p] = "failed"]
          /\ wr' = [wr EXCEPT ![cur.p] = NoWrite]
          /\ wpc' = "set_reply"
          /\ UNCHANGED file
    /\ UNCHANGED <<heap, cur, snapshot, cpc, cop, cancelled, mbox, cres, clist,
                   creq, kpc, doneClosed, quitClosed, hist, floor,
                   gotVer, nilVer, sentVal, nonNil, live, fres, dom, web>>

\* todo.Save, step 3, os.WriteFile: the write and the close. A failing write
\* leaves a prefix of the data behind.
WorkerWrite ==
    /\ wpc = "w_write"
    /\ \/ /\ ~CtxStopsSave(CtxDone(cur))
          /\ file' = WriteAt(file, wr[cur.p].buf)
          /\ serr' = "nil"
          /\ wstat' = [wstat EXCEPT ![cur.p] = "written"]
       \/ /\ ~CtxStopsSave(CtxDone(cur))
          /\ \E k \in 0..(Len(wr[cur.p].buf) - 1) :
                file' = WriteAt(file, SubSeq(wr[cur.p].buf, 1, k))
          /\ serr' = "io"
          /\ wstat' = [wstat EXCEPT ![cur.p] = "failed"]
       \/ /\ CtxStopsSave(CtxDone(cur))
          /\ serr' = "cancelled"
          /\ wstat' = [wstat EXCEPT ![cur.p] = "stopped"]
          /\ UNCHANGED file
    /\ wr' = [wr EXCEPT ![cur.p] = NoWrite]
    /\ wpc' = "set_reply"
    /\ UNCHANGED <<heap, cur, snapshot, cpc, cop, cancelled, mbox, cres, clist,
                   creq, kpc, doneClosed, quitClosed, hist, floor,
                   gotVer, nilVer, sentVal, nonNil, live, fres, dom, web>>

\* The worker reports success whatever todo.Save returned.
ReplyErr_nil(e) == "nil"

\* case setReq: the value sent on m.reply is the err of todo.Save.
ReplyErr(e) == e

\* After a failed todo.Save the worker puts the snapshot back that it had
\* before the request.
WorkerSetReply_rollback ==
    /\ wpc = "set_reply"
    /\ ReplyReady(cur)
    /\ mbox' = Deliver(cur, FullBox(NilSlice, ReplyErr(serr), Len(hist)))
    /\ gotVer' = [gotVer EXCEPT ![cur.p] = IF cpc[cur.p] = "select2" THEN Len(hist) ELSE @]
    /\ IF serr # "nil"
       THEN LET old == Alloc(heap, <<cur.p, "snap">>, hist[Len(hist) - 1].items)
            IN heap' = old.heap /\ snapshot' = old.out
       ELSE UNCHANGED <<heap, snapshot>>
    /\ wpc' = "select"
    /\ cur' = NoMsg
    /\ serr' = "nil"
    /\ UNCHANGED <<file, wr, cpc, cop, cancelled, cres, clist,
                   creq, kpc, doneClosed, quitClosed, hist, floor,
                   nilVer, sentVal, wstat, nonNil, live, fres, dom, web>>

\* case setReq: m.reply <- err
WorkerSetReply ==
    /\ wpc = "set_reply"
    /\ ReplyReady(cur)
    /\ mbox' = Deliver(cur, FullBox(NilSlice, ReplyErr(serr), Len(hist)))
    /\ gotVer' = [gotVer EXCEPT ![cur.p] = IF cpc[cur.p] = "select2" THEN Len(hist) ELSE @]
    /\ wpc' = "select"
    /\ cur' = NoMsg
    /\ serr' = "nil"
    /\ UNCHANGED <<file, wr, heap, snapshot, cpc, cop, cancelled, cres, clist,
                   creq, kpc, doneClosed, quitClosed, hist, floor,
                   nilVer, sentVal, wstat, nonNil, live, fres, dom, web>>

\* The worker goes back to its select after a stop request.
StopNext_loop == "select"

\* case stopReq: the return after close(m.done) ends the goroutine.
StopNext == "exited"

\* case stopReq: close(m.done); return
WorkerStop ==
    /\ wpc = "stop"
    /\ doneClosed' = TRUE
    /\ wpc' = StopNext
    /\ UNCHANGED <<file, wr, heap, cur, snapshot, serr, cpc, cop, cancelled,
                   mbox, cres, clist, creq, kpc, quitClosed, hist,
                   floor, gotVer, nilVer, sentVal, wstat, nonNil, live, fres, dom, web>>

\* case <-s.quit: return
WorkerQuit ==
    /\ wpc = "select"
    /\ quitClosed
    /\ wpc' = "exited"
    /\ UNCHANGED <<file, wr, heap, cur, snapshot, serr, cpc, cop, cancelled,
                   mbox, cres, clist, creq, kpc, doneClosed, quitClosed,
                   hist, floor, gotVer, nilVer, sentVal, wstat,
                   nonNil, live, fres, dom, web>>

\* ------------------------------------------------------------------ actor store: Close

\* The timer never fires.
After_never == FALSE

\* time.After(d): the timer fires; the channel becomes ready at some point.
After == TRUE

CloseStart ==
    /\ kpc = "idle"
    /\ kpc' = "select1"
    /\ UNCHANGED <<file, wr, heap, wpc, cur, snapshot, serr, cpc, cop,
                   cancelled, mbox, cres, clist, creq, doneClosed, quitClosed,
                   hist, floor, gotVer, nilVer, sentVal, wstat,
                   nonNil, live, fres, dom, web>>

\* First select of Close, case s.cmds <- stopReq{done: done}.
CloseSend ==
    /\ kpc = "select1"
    /\ Receiving
    /\ wpc' = "stop"
    /\ kpc' = "select2"
    /\ UNCHANGED <<file, wr, heap, cur, snapshot, serr, cpc, cop, cancelled,
                   mbox, cres, clist, creq, doneClosed, quitClosed, hist, floor, gotVer, nilVer, sentVal, wstat, nonNil, live, fres, dom, web>>

\* First select of Close, case <-time.After(100 * time.Millisecond).
CloseTimeout1 ==
    /\ kpc = "select1"
    /\ After
    /\ kpc' = "select2"
    /\ UNCHANGED <<file, wr, heap, wpc, cur, snapshot, serr, cpc, cop,
                   cancelled, mbox, cres, clist, creq, doneClosed, quitClosed,
                   hist, floor, gotVer, nilVer, sentVal, wstat,
                   nonNil, live, fres, dom, web>>

\* Second select of Close, case <-done.
CloseDone ==
    /\ kpc = "select2"
    /\ doneClosed
    /\ kpc' = "closing"
    /\ UNCHANGED <<file, wr, heap, wpc, cur, snapshot, serr, cpc, cop,
                   cancelled, mbox, cres, clist, creq, doneClosed, quitClosed,
                   hist, floor, gotVer, nilVer, sentVal, wstat,
                   nonNil, live, fres, dom, web>>

\* Second select of Close, case <-time.After(150 * time.Millisecond).
CloseTimeout2 ==
    /\ kpc = "select2"
    /\ After
    /\ kpc' = "closing"
    /\ UNCHANGED <<file, wr, heap, wpc, cur, snapshot, serr, cpc, cop,
                   cancelled, mbox, cres, clist, creq, doneClosed, quitClosed,
                   hist, floor, gotVer, nilVer, sentVal, wstat,
                   nonNil, live, fres, dom, web>>

\* close(s.quit) is guarded: closing a closed channel does nothing.
CloseQuit_once ==
    /\ kpc = "closing"
    /\ quitClosed' = TRUE
    /\ kpc' = "returned"
    /\ UNCHANGED <<file, wr, heap, wpc, cur, snapshot, serr, cpc, cop,
                   cancelled, mbox, cres, clist, creq, doneClosed, hist, floor,
                   gotVer, nilVer, sentVal, wstat, nonNil, live, fres, dom, web>>

\* close(s.quit), and Close returns; close of a channel that is closed
\* already panics.
CloseQuit ==
    /\ kpc = "closing"
    /\ quitClosed' = TRUE
    /\ kpc' = IF quitClosed THEN "panicked" ELSE "returned"
    /\ UNCHANGED <<file, wr, heap, wpc, cur, snapshot, serr, cpc, cop,
                   cancelled, mbox, cres, clist, creq, doneClosed, hist, floor, gotVer, nilVer, sentVal, wstat, nonNil, live, fres, dom, web>>

\* A further Close on the same store, called by goroutine p:
\* done := make(chan struct{}), a channel of this call (mbox[p].full once
\* it is closed).
CloserStart(p) ==
    /\ p \in live
    /\ cpc[p] = "idle"
    /\ cpc' = [cpc EXCEPT ![p] = "k_select1"]
    /\ cop' = [cop EXCEPT ![p] = "close"]
    /\ mbox' = [mbox EXCEPT ![p] = EmptyBox]
    /\ cres' = [cres EXCEPT ![p] = "pending"]
    /\ UNCHANGED <<file, wr, heap, wpc, cur, snapshot, serr, cancelled, clist,
                   creq, kpc, doneClosed, quitClosed, hist, floor, gotVer,
                   nilVer, sentVal, wstat, nonNil, live, fres, dom, web>>

\* First select of that Close, case s.cmds <- stopReq{done: done}.
CloserSend(p) ==
    /\ cpc[p] = "k_select1"
    /\ Receiving
    /\ cur' = [NoMsg EXCEPT !.p = p, !.op = "stop"]
    /\ wpc' = "stop_for"
    /\ cpc' = [cpc EXCEPT ![p] = "k_select2"]
    /\ UNCHANGED <<file, wr, heap, snapshot, serr, cop, cancelled, mbox, cres,
                   clist, creq, kpc, doneClosed, quitClosed, hist, floor,
                   gotVer, nilVer, sentVal, wstat, nonNil, live, fres, dom, web>>

\* First select of that Close, case <-time.After(100 * time.Millisecond).
CloserTimeout1(p) ==
    /\ cpc[p] = "k_select1"
    /\ After
    /\ cpc' = [cpc EXCEPT ![p] = "k_select2"]
    /\ UNCHANGED <<file, wr, heap, wpc, cur, snapshot, serr, cop, cancelled,
                   mbox, cres, clist, creq, kpc, doneClosed, quitClosed, hist,
                   floor, gotVer, nilVer, sentVal, wstat, nonNil, live, fres,
                   dom, web>>

\* case stopReq for the stopReq of goroutine cur.p: close(m.done); return
WorkerStopFor ==
    /\ wpc = "stop_for"
    /\ mbox' = [mbox EXCEPT ![cur.p] = [EmptyBox EXCEPT !.full = TRUE]]
    /\ wpc' = StopNext
    /\ UNCHANGED <<file, wr, heap, cur, snapshot, serr, cpc, cop, cancelled,
                   cres, clist, creq, kpc, doneClosed, quitClosed, hist, floor,
                   gotVer, nilVer, sentVal, wstat, nonNil, live, fres, dom, web>>

\* Second select of that Close, case <-done.
CloserDone(p) ==
    /\ cpc[p] = "k_select2"
    /\ mbox[p].full
    /\ cpc' = [cpc EXCEPT ![p] = "k_closing"]
    /\ UNCHANGED <<file, wr, heap, wpc, cur, snapshot, serr, cop, cancelled,
                   mbox, cres, clist, creq, kpc, doneClosed, quitClosed, hist,
                   floor, gotVer, nilVer, sentVal, wstat, nonNil, live, fres,
                   dom, web>>

\* Second select of that Close, case <-time.After(150 * time.Millisecond).
CloserTimeout2(p) ==
    /\ cpc[p] = "k_select2"
    /\ After
    /\ cpc' = [cpc EXCEPT ![p] = "k_closing"]
    /\ UNCHANGED <<file, wr, heap, wpc, cur, snapshot, serr, cop, cancelled,
                   mbox, cres, clist, creq, kpc, doneClosed, quitClosed, hist,
                   floor, gotVer, nilVer, sentVal, wstat, nonNil, live, fres,
                   dom, web>>

\* close(s.quit) of that Close: it returns, or panics when quit is closed
\* already.
CloserQuit(p) ==
    /\ cpc[p] = "k_closing"
    /\ quitClosed' = TRUE
    /\ cpc' = [cpc EXCEPT ![p] = "done"]
    /\ cres' = [cres EXCEPT ![p] = IF quitClosed THEN "panic" ELSE "nil"]
    /\ UNCHANGED <<file, wr, heap, wpc, cur, snapshot, serr, cop, cancelled,
                   mbox, clist, creq, kpc, doneClosed, hist, floor, gotVer,
                   nilVer, sentVal, wstat, nonNil, live, fres, dom, web>>

\* ------------------------------------------------------------------ actor store: specification

\* The file NewActorStore finds: none, the seed document, or a damaged one.
SeedFile == File(TRUE, Marshal(Val(FALSE, SeedItems)))
DamagedFile == File(TRUE, <<LB>>)

\* Further files NewActorStore can find: one of zero bytes, one holding
\* "null", and one that os.ReadFile cannot read.
EmptyFile == File(TRUE, <<>>)
NullFile == File(TRUE, <<Null>>)
UnreadableFile == [SeedFile EXCEPT !.readable = FALSE]

NoHeap == [a \in Addrs |-> <<>>]

InitCalls ==
    /\ wr = [p \in Callers |-> NoWrite]
    /\ cur = NoMsg
    /\ serr = "nil"
    /\ cpc = [p \in Callers |-> "idle"]
    /\ cop = [p \in Callers |-> "none"]
    /\ cancelled = [p \in Callers |-> "no"]
    /\ mbox = [p \in Callers |-> EmptyBox]
    /\ cres = [p \in Callers |-> "none"]
    /\ creq = [p \in Callers |-> NilSlice]
    /\ kpc = "idle"
    /\ doneClosed = FALSE
    /\ quitClosed = FALSE
    /\ floor = [p \in Callers |-> 0]
    /\ gotVer = [p \in Callers |-> -1]
    /\ nilVer = 0
    /\ sentVal = [p \in Callers |-> NilVal]
    /\ wstat = [p \in Callers |-> "none"]
    /\ nonNil = FALSE
    /\ fres = [p \in Callers |-> [err |-> "none", val |-> NilVal]]
    /\ dom = NoDom

\* The worker has no snapshot yet.
InitRest ==
    /\ InitCalls
    /\ snapshot = NilSlice
    /\ hist = <<>>

\* No goroutine holds a list yet.
InitCommon ==
    /\ InitRest
    /\ web = [p \in Callers |-> NoWeb]
    /\ heap = NoHeap
    /\ clist = [p \in Callers |-> NilSlice]

\* NewActorStore has returned: the worker goroutine exists and has not run.
InitActor(n, files) ==
    /\ InitCommon
    /\ live = 1..n
    /\ file \in files
    /\ wpc = "boot"

Worker ==
    \/ WorkerBoot
    \/ WorkerGet
    \/ WorkerSet
    \/ WorkerSave
    \/ WorkerOpen
    \/ WorkerWrite
    \/ WorkerSetReply

WorkerExit ==
    \/ WorkerStop
    \/ WorkerQuit

Close ==
    \/ CloseStart
    \/ CloseSend
    \/ CloseTimeout1
    \/ CloseDone
    \/ CloseTimeout2
    \/ CloseQuit

Caller(p) ==
    \/ StartLoad(p)
    \/ StartSave(p)
    \/ Handoff(p)
    \/ ReturnLoad(p)
    \/ ReturnSave(p)

CallerCancel(p) ==
    \/ Cancel(p)
    \/ ReturnCancelled(p)

\* The store in use by goroutines whose contexts stay live.
Init == InitActor(NumCallers, {MissingFile, SeedFile, DamagedFile})

Next ==
    \/ Worker
    \/ \E p \in Callers : Caller(p)

Spec == Init /\ [][Next]_vars

\* The store started on each kind of file.
InitStartup ==
    InitActor(StartupCallers, {MissingFile, SeedFile, DamagedFile,
                               EmptyFile, NullFile, UnreadableFile})

SpecStartup == InitStartup /\ [][Next]_vars

\* The same, with contexts that are cancelled.
InitCancel == InitActor(CancelCallers, {SeedFile})

NextCancel ==
    \/ Worker
    \/ \E p \in Callers : Caller(p) \/ CallerCancel(p)

SpecCancel == InitCancel /\ [][NextCancel]_vars

\* A call returns through whichever case of its select is ready.
Return(p) ==
    \/ ReturnLoad(p)
    \/ ReturnSave(p)
    \/ ReturnCancelled(p)

\* The Go scheduler runs every runnable goroutine: the worker is not
\* starved, and neither is a caller whose select has a ready case. Senders
\* blocked on cmds wait in the channel's FIFO queue, so a waiting sender is
\* handed off after finitely many receives of the worker. Nothing makes a
\* context be cancelled.
SchedulerFair ==
    /\ WF_vars(Worker)
    /\ \A p \in Callers : SF_vars(Handoff(p))
    /\ \A p \in Callers : WF_vars(Return(p))

SpecCancelFair == SpecCancel /\ SchedulerFair

\* The same, with callers that change the lists they hold.
InitAlias == InitActor(AliasCallers, {MissingFile, SeedFile})

NextAlias ==
    \/ Worker
    \/ \E p \in Callers : Caller(p) \/ Mutate(p)

SpecAlias == InitAlias /\ [][NextAlias]_vars

\* The same, with one goroutine calling Close.
InitClose == InitActor(CloseCallers, {SeedFile})

NextClose ==
    \/ Worker
    \/ WorkerExit
    \/ Close
    \/ \E p \in Callers : Caller(p) \/ CallerCancel(p)

SpecClose == InitClose /\ [][NextClose]_vars

\* The goroutine inside Close keeps running: it is never starved while one
\* of its select cases is ready. Nothing is assumed of the worker.
CloseStep ==
    \/ CloseSend
    \/ CloseTimeout1
    \/ CloseDone
    \/ CloseTimeout2
    \/ CloseQuit

SpecCloseFair == SpecClose /\ WF_vars(CloseStep)

\* Close called more than once on one store, one after the other or at the
\* same time. A panic that nothing recovers ends the process.
Closer(p) ==
    \/ CloserStart(p)
    \/ CloserSend(p)
    \/ CloserTimeout1(p)
    \/ CloserDone(p)
    \/ CloserTimeout2(p)
    \/ CloserQuit(p)

Panicked == kpc = "panicked" \/ \E p \in Callers : cres[p] = "panic"

InitReclose == InitActor(RecloseCallers, {MissingFile, SeedFile, DamagedFile})

NextReclose ==
    /\ ~Panicked
    /\ \/ WorkerBoot
       \/ WorkerExit
       \/ WorkerStopFor
       \/ Close
       \/ \E p \in Callers : Closer(p)

SpecReclose == InitReclose /\ [][NextReclose]_vars

\* ------------------------------------------------------------------ plain file variant

\* todo.Save(ctx, v, path) called directly by goroutine p (also through
\* FileStore.Save, which calls os.MkdirAll itself before): ensureParentDir,
\* json.MarshalIndent, and the open of os.WriteFile, which fails when the
\* directory of the path is not there.
FSaveOpenList(p, v) ==
    /\ p \in live
    /\ cpc[p] = "idle"
    /\ cop' = [cop EXCEPT ![p] = "save"]
    /\ sentVal' = [sentVal EXCEPT ![p] = v]
    /\ LET f == ensureParentDir(file)
       IN IF f.dir # "none"
          THEN /\ cpc' = [cpc EXCEPT ![p] = "f_write"]
               /\ wr' = [wr EXCEPT ![p] = OpenWrite(Marshal(v))]
               /\ file' = OpenTrunc(f)
               /\ cres' = cres
          ELSE /\ cpc' = [cpc EXCEPT ![p] = "done"]
               /\ cres' = [cres EXCEPT ![p] = "open"]
               /\ UNCHANGED <<wr, file>>
    /\ UNCHANGED <<heap, wpc, cur, snapshot, serr, cancelled, mbox,
                   clist, creq, kpc, doneClosed, quitClosed, hist, floor,
                   gotVer, nilVer, wstat, nonNil, live, fres, dom, web>>

\* The writers of the parallel test save sampleItems.
FSaveOpen(p) == FSaveOpenList(p, Val(FALSE, sampleItems(p)))

\* The write and the close of os.WriteFile; todo.Save returns nil.
FSaveWrite(p) ==
    /\ cpc[p] = "f_write"
    /\ file' = WriteAt(file, wr[p].buf)
    /\ wr' = [wr EXCEPT ![p] = NoWrite]
    /\ cpc' = [cpc EXCEPT ![p] = "done"]
    /\ cres' = [cres EXCEPT ![p] = "nil"]
    /\ UNCHANGED <<heap, wpc, cur, snapshot, serr, cop, cancelled, mbox,
                   clist, creq, kpc, doneClosed, quitClosed, hist, floor,
                   gotVer, nilVer, sentVal, wstat, nonNil, live, fres, dom, web>>

\* todo.Load called directly by goroutine p (also through FileStore.Load).
FLoad(p) ==
    /\ p \in live
    /\ cpc[p] = "idle"
    /\ cop' = [cop EXCEPT ![p] = "load"]
    /\ cpc' = [cpc EXCEPT ![p] = "done"]
    /\ fres' = [fres EXCEPT ![p] = TodoLoad(file)]
    /\ cres' = [cres EXCEPT ![p] = TodoLoad(file).err]
    /\ UNCHANGED <<file, wr, heap, wpc, cur, snapshot, serr, cancelled, mbox,
                   clist, creq, kpc, doneClosed, quitClosed, hist, floor,
                   gotVer, nilVer, sentVal, wstat, nonNil, live, dom, web>>

\* The seed is on disk and no actor runs; writers and readers share the path.
InitFile ==
    /\ InitCommon
    /\ live = Callers
    /\ file = SeedFile
    /\ wpc = "none"

NextFile ==
    \E p \in Callers : FSaveOpen(p) \/ FSaveWrite(p) \/ FLoad(p)

SpecFile == InitFile /\ [][NextFile]_vars

\* The lists a goroutine saves: a nil slice, an empty one, and sampleItems.
SaveLists(p) == {NilVal, EmptyVal, Val(FALSE, sampleItems(p))}

\* What the path can be when the goroutines start.
DiskFiles ==
    {MissingFile, NoDirFile, SeedFile, DamagedFile, EmptyFile, NullFile, UnreadableFile}

\* No actor runs; the goroutines call todo.Save and todo.Load (or FileStore)
\* on one path, in any order, whatever the path holds.
InitDisk ==
    /\ InitCommon
    /\ live = Callers
    /\ file \in DiskFiles
    /\ wpc = "none"

NextDisk ==
    \E p \in Callers :
        \/ \E v \in SaveLists(p) : FSaveOpenList(p, v)
        \/ FSaveWrite(p)
        \/ FLoad(p)

SpecDisk == InitDisk /\ [][NextDisk]_vars

\* One path used both ways: an ActorStore on it, and goroutines that call
\* the store or call todo.Save and todo.Load (FileStore) on the path, with
\* nil lists among the lists they save.
InitStores == InitActor(StoreCallers, {MissingFile, NullFile, SeedFile})

NextStores ==
    \/ Worker
    \/ \E p \in Callers :
        \/ StartLoad(p)
        \/ \E v \in {NilVal, Val(FALSE, sampleItems(p))} : StartSaveList(p, v)
        \/ Handoff(p)
        \/ ReturnLoad(p)
        \/ ReturnSave(p)
        \/ \E v \in {NilVal, Val(FALSE, sampleItems(p))} : FSaveOpenList(p, v)
        \/ FSaveWrite(p)
        \/ FLoad(p)

SpecStores == InitStores /\ [][NextStores]_vars

\* ------------------------------------------------------------------ HTTP handlers

\* The two handler sets: package httpapi (Register) and api_app.Server.
Impls == {"httpapi", "server"}

\* A field of a decoded JSON body that the body did not have is the zero
\* value of a string field.
Field(x) == IF x = "none" THEN "" ELSE x

\* The requests: the method, whether the body decodes, the id of the body
\* (0 when it has none) or of the query (q: not given, not a number, a
\* number), and the description and status of the body ("none": not given).
Methods == {"GET", "POST"}
ReqIds == {0, 1, 2}
Req(route, method, json, q, id, desc, status) ==
    [route |-> route, method |-> method, json |-> json, q |-> q, id |-> id,
     desc |-> desc, status |-> status]
Requests ==
    {Req(r, m, FALSE, "num", 0, "none", "none") :
        r \in {"add", "update", "delete"}, m \in Methods}
    \cup {Req("add", m, TRUE, "num", 0, d, st) :
        m \in Methods, d \in {"none", " ", "milk"}, st \in {"none", "StArTeD", "done"}}
    \cup {Req("get", m, TRUE, q, 0, "none", "none") :
        m \in Methods, q \in {"none", "bad"}}
    \cup {Req("get", m, TRUE, "num", id, "none", "none") :
        m \in Methods, id \in ReqIds \ {0}}
    \cup {Req("update", m, TRUE, "num", id, d, st) :
        m \in Methods, id \in ReqIds, d \in {"none", "", " ", "milk"},
        st \in {"none", "COMPLETED", "done"}}
    \cup {Req("delete", m, TRUE, "num", id, "none", "none") :
        m \in Methods, id \in ReqIds}

\* Server: the methods a route accepts (PATCH and DELETE are not sent here).
Allows(route, method) ==
    IF route = "get" THEN method = "GET" ELSE method = "POST"

\* What a handler does before it loads the list: the status code it
\* answers with, or 0 when it goes on.
PreLoad(impl, req) ==
    IF impl = "server"
    THEN IF ~Allows(req.route, req.method) THEN 405
         ELSE IF req.route = "get" THEN 0
         ELSE IF ~req.json THEN 400
         ELSE IF req.route \in {"update", "delete"} /\ req.id = 0 THEN 400
         ELSE 0
    ELSE IF req.route = "get" THEN 0
         ELSE IF ~req.json THEN 400
         ELSE IF req.route = "add" /\ TrimSpace(Field(req.desc)) = "" THEN 400
         ELSE 0

\* Every response of a handler is written after a Save of its list.
Stop_saved(h, list, code) == [stop |-> 0, heap |-> h, out |-> list, ok |-> code]

\* A handler from its Load to its Save: stop is the status code of a
\* response written before Save (0: Save is called with the list out),
\* ok the status code written after a Save that returned nil.
Stop(h, list, code) == [stop |-> code, heap |-> h, out |-> list, ok |-> 0]
Go(h, list, code) == [stop |-> 0, heap |-> h, out |-> list, ok |-> code]

\* addHandler / Server.handleAdd; now is what time.Now() returns.
HandleAdd(impl, h, list, req, a, now) ==
    LET raw == TrimSpace(Field(req.status))
        r == IF impl = "server"
             THEN Add(h, list, Field(req.desc), Field(req.status), now, a)
             ELSE Add(h, list, TrimSpace(Field(req.desc)),
                      IF raw = "" THEN "not started" ELSE raw, now, a)
    IN IF r.err # "nil" THEN Stop(h, list, 400) ELSE Go(r.heap, r.out, 201)

\* getHandler / Server.handleGet: httpapi ignores the error of
\* strconv.Atoi and looks for ID 0.
HandleGet(impl, h, list, req) ==
    IF req.q = "none" THEN Stop(h, list, 200)
    ELSE IF req.q = "bad" /\ impl = "server" THEN Stop(h, list, 400)
    ELSE IF IndexOf(h, list, IF req.q = "bad" THEN 0 ELSE req.id) # 0
    THEN Stop(h, list, 200)
    ELSE Stop(h, list, 404)

\* updateHandler / Server.handleUpdate: every error of UpdateDescription
\* and UpdateStatus is answered with 400; after the Save, an item that is
\* not found is 404 in Server, and in httpapi nothing is written, which
\* net/http sends as 200.
HandleUpdate(impl, h, list, req) ==
    LET skipD == IF impl = "server" THEN req.desc = "none" ELSE Field(req.desc) = ""
        skipS == IF impl = "server" THEN req.status = "none" ELSE Field(req.status) = ""
        d == IF skipD THEN Ret(h, list, NoItem, "nil")
             ELSE UpdateDescription(h, list, req.id,
                    IF impl = "server" THEN req.desc ELSE TrimSpace(req.desc))
        u == IF skipS \/ d.err # "nil" THEN d
             ELSE UpdateStatus(d.heap, d.out, req.id,
                    IF impl = "server" THEN req.status ELSE TrimSpace(req.status))
    IN IF u.err # "nil" THEN Stop(h, list, 400)
       ELSE Go(u.heap, u.out,
               IF IndexOf(u.heap, u.out, req.id) # 0 THEN 200
               ELSE IF impl = "server" THEN 404 ELSE 200)

\* deleteHandler / Server.handleDelete: the error of Delete is answered
\* with 400.
HandleDelete(impl, h, list, req) ==
    LET r == Delete(h, list, req.id)
    IN IF r.err # "nil" THEN Stop(h, list, 400)
       ELSE Go(r.heap, r.out, IF impl = "server" THEN 200 ELSE 204)

Handle(impl, h, list, req, a) ==
    CASE req.route = "add" -> HandleAdd(impl, h, list, req, a, 1)
      [] req.route = "get" -> HandleGet(impl, h, list, req)
      [] req.route = "update" -> HandleUpdate(impl, h, list, req)
      [] OTHER -> HandleDelete(impl, h, list, req)

\* The arrays of goroutine p are garbage when its handler has returned.
Forget(h, p) == [a \in Addrs |-> IF a[1] = p THEN <<>> ELSE h[a]]

\* The store of the handlers is an ActorStore when a worker runs, and the
\* path itself (FileStore, or todo.Load and todo.Save in Server) when none
\* does.
ActorBacked == wpc # "none"

\* Load of the store: todo.Load of the path, or the reply of the worker,
\* cloneList(snapshot), which a caller whose context stays live receives.
StoreLoad ==
    IF ActorBacked THEN [err |-> "nil", val |-> Val(FALSE, Deref(heap, snapshot).items)]
    ELSE TodoLoad(file)

\* Save adds the last item of the list to what the file holds.
StoreSave_merge(f, v) ==
    LET old == TodoLoad(f)
    IN IF old.err # "nil" \/ Len(v.items) = 0
       THEN WriteAt(OpenTrunc(ensureParentDir(f)), Marshal(v))
       ELSE WriteAt(OpenTrunc(ensureParentDir(f)),
                    Marshal(Val(FALSE, Append(old.val.items, v.items[Len(v.items)]))))

\* todo.Save that returns nil: the file holds the document of the list.
StoreSave(f, v) == WriteAt(OpenTrunc(ensureParentDir(f)), Marshal(v))

\* The ID in the body of a 201 response: the ID of the item Add appended.
NewID(req, v) ==
    IF req.route = "add" /\ Len(v.items) > 0 THEN v.items[Len(v.items)].id ELSE 0

\* Goroutine p is given a request: the handler decodes and checks it and
\* calls Load; a response written here ends the handler.
HStart(p, req) ==
    /\ p \in live
    /\ web[p].pc = "idle"
    /\ LET pre == PreLoad(web[p].impl, req)
           ld == StoreLoad
           l == IF ld.val.nil THEN [heap |-> heap, out |-> NilSlice]
                ELSE Alloc(heap, <<p, "load">>, ld.val.items)
       IN IF pre # 0
          THEN /\ web' = [web EXCEPT ![p].pc = "done", ![p].req = req, ![p].status = pre]
               /\ UNCHANGED <<heap, clist>>
          ELSE IF ld.err # "nil"
          THEN /\ web' = [web EXCEPT ![p].pc = "done", ![p].req = req, ![p].status = 500]
               /\ UNCHANGED <<heap, clist>>
          ELSE /\ web' = [web EXCEPT ![p].pc = "loaded", ![p].req = req]
               /\ heap' = l.heap
               /\ clist' = [clist EXCEPT ![p] = l.out]
    /\ UNCHANGED <<file, wr, wpc, cur, snapshot, serr, cpc, cop, cancelled,
                   mbox, cres, creq, kpc, doneClosed, quitClosed, hist, floor,
                   gotVer, nilVer, sentVal, wstat, nonNil, live, fres, dom>>

\* The handler of p goes on from the list it loaded: the todo function, the
\* Save (todo.Save: it returns nil, or fails and leaves the file as it was
\* or truncated) and the response. The worker of an ActorStore makes the
\* list its snapshot before it calls todo.Save.
HFinish(p) ==
    /\ web[p].pc = "loaded"
    /\ LET r == Handle(web[p].impl, heap, clist[p], web[p].req, <<p, "grow1">>)
           v == Deref(r.heap, r.out)
           snap == Alloc(r.heap, <<0, "snap">>, v.items)
       IN /\ \/ /\ r.stop # 0
                /\ web' = [web EXCEPT ![p].pc = "done", ![p].status = r.stop]
                /\ file' = file
             \/ /\ r.stop = 0
                /\ web' = [web EXCEPT ![p].pc = "done", ![p].status = r.ok,
                                      ![p].saved = "ok",
                                      ![p].id = NewID(web[p].req, v)]
                /\ file' = StoreSave(file, v)
             \/ /\ r.stop = 0
                /\ web' = [web EXCEPT ![p].pc = "done", ![p].status = 500,
                                      ![p].saved = "failed"]
                /\ file' \in {file, OpenTrunc(ensureParentDir(file))}
          /\ IF ActorBacked /\ r.stop = 0
             THEN /\ heap' = Forget(snap.heap, p)
                  /\ snapshot' = snap.out
                  /\ hist' = Append(hist, Val(FALSE, v.items))
             ELSE /\ heap' = Forget(r.heap, p)
                  /\ UNCHANGED <<snapshot, hist>>
    /\ clist' = [clist EXCEPT ![p] = NilSlice]
    /\ UNCHANGED <<wr, wpc, cur, serr, cpc, cop, cancelled,
                   mbox, cres, creq, kpc, doneClosed, quitClosed, floor,
                   gotVer, nilVer, sentVal, wstat, nonNil, live, fres, dom>>

\* A server of either handler set on a path that holds nothing, the seed,
\* or a damaged file.
InitHttp ==
    /\ InitRest
    /\ heap = NoHeap
    /\ clist = [p \in Callers |-> NilSlice]
    /\ live = 1..HttpCallers
    /\ file \in {MissingFile, SeedFile, DamagedFile}
    /\ wpc = "none"
    /\ \E impl \in Impls : web = [p \in Callers |-> [NoWeb EXCEPT !.impl = impl]]

NextHttp ==
    \E p \in Callers :
        \/ \E req \in Requests : HStart(p, req)
        \/ HFinish(p)

SpecHttp == InitHttp /\ [][NextHttp]_vars

\* Requests that arrive at the same time: two that add an item, one that
\* is rejected, one that reads and one that deletes.
RaceRequests ==
    {Req("add", "POST", TRUE, "num", 0, d, "StArTeD") : d \in {"milk", " tea ", " "}}
    \cup {Req("get", "GET", TRUE, "num", 1, "none", "none"),
          Req("delete", "POST", TRUE, "num", 1, "none", "none")}

\* The store the server was given: the path with nothing or the seed in
\* it, or an ActorStore on that path whose worker has loaded it; Server
\* has no ActorStore.
InitRace ==
    /\ InitCalls
    /\ clist = [p \in Callers |-> NilSlice]
    /\ live = 1..RaceCallers
    /\ file \in {MissingFile, SeedFile}
    /\ \E impl \in Impls : web = [p \in Callers |-> [NoWeb EXCEPT !.impl = impl]]
    /\ \/ /\ wpc = "none"
          /\ heap = NoHeap
       \/ /\ wpc = "select"
          /\ web[1].impl = "httpapi"
          /\ heap = Alloc(NoHeap, <<0, "snap">>, TodoLoad(file).val.items).heap
    /\ snapshot = IF wpc = "none" THEN NilSlice
                  ELSE Alloc(NoHeap, <<0, "snap">>, TodoLoad(file).val.items).out
    /\ hist = IF wpc = "none" THEN <<>> ELSE <<Val(FALSE, TodoLoad(file).val.items)>>

NextRace ==
    \E p \in Callers :
        \/ \E req \in RaceRequests : HStart(p, req)
        \/ HFinish(p)

SpecRace == InitRace /\ [][NextRace]_vars

\* ------------------------------------------------------------------ todo: a goroutine editing a list

\* Where append puts a new backing array: not where the list is now.
GrowAddr(list) ==
    IF list.arr = <<Editor, "grow1">> THEN <<Editor, "grow2">> ELSE <<Editor, "grow1">>

\* Arrays that neither the list passed in nor the list returned refers to
\* are garbage.
Collect(h, in, out) ==
    [a \in Addrs |-> IF a \in {in.arr, out.arr} THEN h[a] ELSE <<>>]

\* list, ... = f(list, ...): the goroutine keeps the list that is returned.
Called(op, id, desc, status, r) ==
    /\ dom.calls < MaxCalls
    /\ heap' = Collect(r.heap, clist[Editor], r.out)
    /\ clist' = [clist EXCEPT ![Editor] = r.out]
    /\ dom' = [op |-> op, id |-> id, desc |-> desc, status |-> status,
               in |-> clist[Editor], prev |-> Deref(heap, clist[Editor]), item |-> r.item,
               err |-> r.err, calls |-> dom.calls + 1,
               now |-> IF op = "add" /\ r.err = "nil" THEN dom.now + 1 ELSE dom.now,
               assigned |-> IF op = "add" /\ r.err = "nil"
                            THEN Append(dom.assigned, r.item.id) ELSE dom.assigned]
    /\ UNCHANGED <<file, wr, wpc, cur, snapshot, serr, cpc, cop, cancelled,
                   mbox, cres, creq, kpc, doneClosed, quitClosed, hist, floor,
                   gotVer, nilVer, sentVal, wstat, nonNil, live, fres, web>>

DoAdd ==
    \E desc \in Descs, status \in Statuses :
        Called("add", 0, desc, status,
               Add(heap, clist[Editor], desc, status, dom.now, GrowAddr(clist[Editor])))

DoUpdateStatus ==
    \E id \in 1..MaxId, status \in Statuses :
        Called("status", id, "", status, UpdateStatus(heap, clist[Editor], id, status))

DoUpdateDescription ==
    \E id \in 1..MaxId, desc \in Descs :
        Called("desc", id, desc, "", UpdateDescription(heap, clist[Editor], id, desc))

DoDelete ==
    \E id \in 1..MaxId :
        Called("delete", id, "", "", Delete(heap, clist[Editor], id))

NextTodo ==
    \/ DoAdd
    \/ DoUpdateStatus
    \/ DoUpdateDescription
    \/ DoDelete

\* No store runs; the goroutine starts from the empty list: a nil slice, or
\* the []Item{} that todo.Load returns for a missing file.
InitTodo ==
    /\ InitRest
    /\ web = [p \in Callers |-> NoWeb]
    /\ live = {}
    /\ file = MissingFile
    /\ wpc = "none"
    /\ heap = NoHeap
    /\ \E start \in {NilSlice, Slice(FALSE, NilAddr, 0)} :
            clist = [p \in Callers |-> IF p = Editor THEN start ELSE NilSlice]

SpecTodo == InitTodo /\ [][NextTodo]_vars

\* Lists as todo.Load returns them from a file written earlier: IDs with a
\* gap, and IDs out of order.
LoadedLists ==
    { <<MkItem(1, "milk", StatusStarted, Time(1, FALSE)),
        MkItem(3, "tea", StatusCompleted, Time(2, FALSE))>>,
      <<MkItem(4, "tea", StatusNotStarted, Time(1, FALSE)),
        MkItem(2, "milk", StatusStarted, Time(2, FALSE))>> }

\* The goroutine starts from the empty list or from a loaded one.
InitTodoLoaded ==
    /\ InitRest
    /\ web = [p \in Callers |-> NoWeb]
    /\ live = {}
    /\ file = MissingFile
    /\ wpc = "none"
    /\ \/ /\ heap = NoHeap
          /\ clist = [p \in Callers |-> NilSlice]
       \/ \E items \in LoadedLists :
            LET l == Alloc(NoHeap, <<Editor, "load">>, items)
            IN /\ heap = l.heap
               /\ clist = [p \in Callers |-> IF p = Editor THEN l.out ELSE NilSlice]

SpecTodoLoaded == InitTodoLoaded /\ [][NextTodo]_vars

\* ------------------------------------------------------------------ claims

\* The requests the worker has taken from cmds and not yet replied to.
InService == {p \in Callers : cpc[p] = "select2" /\ gotVer[p] = -1}

\* The os.WriteFile calls that hold the file open.
OpenWrites == {p \in Callers : wr[p].st = "open"}

\* C1: the worker services one request at a time, to completion: at most one
\* request is in service and at most one os.WriteFile holds the file open,
\* both for the message the worker is on; while that write is open the file
\* holds only what this write has put there (nothing of another Save).
C1_Serialized ==
    /\ Cardinality(InService) <= 1
    /\ Cardinality(OpenWrites) <= 1
    /\ \A p \in InService : cur.p = p /\ wpc \notin {"boot", "select"}
    /\ \A p \in Callers : wr[p].st # "none" => cur.p = p /\ wpc \in {"w_open", "w_write"}
    /\ \A p \in OpenWrites : file.data = <<>>
    /\ (wpc = "set_reply" /\ serr = "nil") => file.data = Marshal(cur.sent)

\* Two Save calls are in progress and one of them is being written.
C1_Witness ==
    \E p, q \in Callers :
        /\ p # q
        /\ cop[p] = "save" /\ cop[q] = "save"
        /\ wr[p].st = "open"
        /\ cpc[q] = "select1"

\* A Load that returned a list without error.
Loaded(q) == cop[q] = "load" /\ cpc[q] = "done" /\ cres[q] = "nil"

\* The list a caller holds.
Held(q) == Deref(heap, clist[q])

\* C2: a Load issued after a Save returned nil returns the list of that Save
\* or of a Save serviced after it (hist[k] with k not below the version of
\* the newest Save that had returned nil when the Load was issued).
C2_ReadYourWrites ==
    \A q \in Callers :
        Loaded(q) =>
            \E k \in 1..Len(hist) :
                /\ k >= floor[q]
                /\ Held(q) = hist[k]

\* A Load that was issued after a Save had returned nil has returned.
C2_Witness ==
    \E q \in Callers : Loaded(q) /\ floor[q] >= 2

\* C3: a Load that returns without error returns the startup snapshot or the
\* complete list of one Save.
C3_NoMixture ==
    \A q \in Callers :
        Loaded(q) =>
            \/ Held(q) = hist[1]
            \/ \E p \in Callers :
                /\ cop[p] = "save"
                /\ Held(q) = Val(FALSE, sampleItems(p))

\* Two Saves with different lists were serviced and a Load returned the
\* two items of one of them.
C3_Witness ==
    \E q \in Callers :
        /\ Loaded(q)
        /\ Len(hist) = 3
        /\ Len(Held(q).items) = 2

\* Every Save that was issued has returned nil, and there is one.
AllSavesNil ==
    /\ \E p \in Callers : cop[p] = "save"
    /\ \A p \in Callers : cop[p] = "save" => cpc[p] = "done" /\ cres[p] = "nil"

\* C5: once every issued Save has returned nil, the file decodes to the list
\* of the Save serviced last, which is also the snapshot.
C5_NoLostWrite ==
    AllSavesNil =>
        LET last == hist[Len(hist)]
            disk == TodoLoad(file)
        IN /\ Len(hist) >= 2
           /\ disk.err = "nil"
           /\ disk.val.nil = last.nil
           /\ ListSame(disk.val.items, last.items)
           /\ Deref(heap, snapshot) = last

\* Two Saves have returned nil, the longer list first.
C5_Witness ==
    /\ AllSavesNil
    /\ Len(hist) = 3
    /\ Len(hist[2].items) > Len(hist[3].items)

\* A direct todo.Load that has returned.
FLoaded(q) == cop[q] = "load" /\ cpc[q] = "done"

\* C4: with concurrent writers and readers on one path, every Load returns
\* without error, and returns the complete list of some Save or the content
\* present before the writers started.
C4_NoTornRead ==
    \A q \in Callers :
        FLoaded(q) =>
            /\ fres[q].err = "nil"
            /\ \/ ListSame(fres[q].val.items, SeedItems)
               \/ \E p \in Callers : ListSame(fres[q].val.items, sampleItems(p))

\* A Save call that has returned.
SaveDone(p) == cop[p] = "save" /\ cpc[p] = "done"

\* C6 as stated: a Save that returns nil was written before it returned, and
\* a failed disk write makes Save return that write's error.
C6_Original ==
    \A p \in Callers :
        SaveDone(p) =>
            /\ cres[p] = "nil" => wstat[p] = "written"
            /\ wstat[p] = "failed" => cres[p] = "io"

\* C6 as amended: a Save that returns nil was written, complete, before it
\* returned; after a failed disk write Save never returns nil: it returns
\* that write's error or, if its context was cancelled, the cancellation
\* error; and an I/O error is returned only for a write that failed.
C6_SaveSynchronous ==
    /\ \A p \in Callers :
        SaveDone(p) =>
            /\ cres[p] = "nil" => wstat[p] = "written"
            /\ wstat[p] = "failed" => cres[p] \in {"io", "cancelled"}
            /\ cres[p] = "io" => wstat[p] = "failed"
            /\ cres[p] = "cancelled" => cancelled[p] # "no"
    /\ (wpc = "set_reply" /\ serr = "nil") =>
            /\ wstat[cur.p] = "written"
            /\ file.data = Marshal(cur.sent)

\* One Save has returned nil and another the error of its failed write.
C6_Witness ==
    \E p, q \in Callers :
        /\ SaveDone(p) /\ cres[p] = "nil" /\ wstat[p] = "written"
        /\ SaveDone(q) /\ cres[q] = "io" /\ wstat[q] = "failed"

\* C7: a call whose context was cancelled before the worker had serviced
\* its request (here: while the request was still waiting to be handed to
\* the worker) returns the cancellation error: Load returns no list with
\* it, and Save does not return nil.
C7_CancelBeforeService ==
    \A p \in Callers :
        (cpc[p] = "done" /\ cancelled[p] = "queued") =>
            /\ cres[p] = "cancelled"
            /\ cop[p] = "load" => clist[p].nil

\* C8: a write the worker has taken on is carried through whatever the
\* caller's context does: the open file belongs to the message the worker
\* is writing, and unless the disk itself fails, todo.Save ends with the
\* complete document in the file and err = nil.
C8_WriteRunsToCompletion ==
    /\ \A p \in Callers : wr[p].st = "open" => wpc = "w_write" /\ cur.p = p
    /\ (wpc = "set_reply" /\ wstat[cur.p] # "failed") =>
            /\ wstat[cur.p] = "written"
            /\ serr = "nil"
            /\ file.data = Marshal(cur.sent)

\* The caller has returned with the cancellation error and the worker has
\* written its list completely.
C8_Witness ==
    /\ wpc = "set_reply"
    /\ cpc[cur.p] = "done"
    /\ cres[cur.p] = "cancelled"
    /\ wstat[cur.p] = "written"
    /\ file.data = Marshal(cur.sent)

\* The first description of the list a caller holds is the one it wrote.
HasChanged(q) == Held(q).items # <<>> /\ Held(q).items[1].desc = Changed

\* What the worker owns is what the callers sent: the snapshot is the list
\* of the last Save serviced (or the startup list), a reply on its way is
\* the snapshot of its version, and the file a Save has written holds the
\* list as it was when Save was called.
OwnedIntact ==
    /\ wpc # "boot" => Deref(heap, snapshot) = hist[Len(hist)]
    /\ \A q \in Callers :
        (mbox[q].full /\ cop[q] = "load") =>
            Deref(heap, mbox[q].list) = hist[mbox[q].ver]
    /\ \A q \in Callers :
        (cop[q] = "save" /\ cpc[q] = "select1") =>
            Deref(heap, creq[q]) = sentVal[q]
    /\ cur.op = "save" => Deref(heap, cur.list) = cur.sent
    /\ (wpc = "set_reply" /\ serr = "nil") => file.data = Marshal(cur.sent)

\* A caller's change to the list it holds changes nothing else: not the
\* snapshot, the file, a request or a reply on its way, or another
\* caller's list.
MutateIsLocal ==
    \A p \in Callers :
        Mutate(p) =>
            /\ Deref(heap', snapshot') = Deref(heap, snapshot)
            /\ file' = file
            /\ Deref(heap', cur'.list) = Deref(heap, cur.list)
            /\ \A q \in Callers :
                /\ Deref(heap', creq'[q]) = Deref(heap, creq[q])
                /\ Deref(heap', mbox'[q].list) = Deref(heap, mbox[q].list)
                /\ q # p => Deref(heap', clist'[q]) = Deref(heap, clist[q])

\* C9: the worker's snapshot is never shared by reference: changing a list
\* that Load returned or that was passed to Save changes neither the
\* snapshot, nor the file, nor what any other caller receives from Load.
C9_NeverShared == []OwnedIntact /\ [][MutateIsLocal]_vars

\* One caller has changed the list Load gave it, another has changed the list
\* it passed to Save, and that Save has been written and has returned nil.
C9_Witness ==
    \E p, q \in Callers :
        /\ Loaded(p) /\ HasChanged(p)
        /\ SaveDone(q) /\ cres[q] = "nil" /\ HasChanged(q)
        /\ Deref(heap, snapshot) = sentVal[q]

\* C10: a Close that has started returns, whatever the worker does.
C10_CloseReturns == (kpc = "select1") ~> (kpc = "returned")

\* Close has returned while the worker is in the middle of a disk write and
\* has never seen the stop request.
C10_Witness ==
    /\ kpc = "returned"
    /\ wpc = "w_write"
    /\ ~doneClosed

\* Caller p is inside Load or Save.
InCall(p) == cpc[p] \in {"select1", "select2"}

\* C11: without Close and with a fairly scheduled worker, every Load and
\* every Save that has been called returns, with the worker's reply or with
\* the cancellation error of a cancelled context.
C11_CallsReturn ==
    \A p \in Callers :
        InCall(p) ~> (cpc[p] = "done" /\ cres[p] \in {"nil", "io", "cancelled"})

\* A call has returned with the worker's reply while the other caller had
\* given up its call, the request of which the worker still serviced.
C11_Witness ==
    \E p, q \in Callers :
        /\ p # q
        /\ cpc[p] = "done" /\ cres[p] = "cancelled" /\ wstat[p] = "written"
        /\ cpc[q] = "done" /\ cres[q] = "nil" /\ gotVer[q] >= 2

\* This step is the worker servicing a request: it replaces its snapshot,
\* touches the file or sends a reply.
WorkerActs ==
    /\ wpc # "boot"
    /\ \/ snapshot' # snapshot
       \/ file' # file
       \/ hist' # hist
       \/ \E p \in Callers : mbox'[p].full /\ ~mbox[p].full

\* C12 as stated: after Close has returned the worker services no further
\* request: no snapshot replacement and no disk write happens.
C12_Original == [][kpc = "returned" => ~WorkerActs]_vars

\* Close returns with quit closed; a worker that acknowledged the stop
\* request has terminated before Close can see the acknowledgement.
CloseLeavesQuit ==
    /\ kpc = "returned" => quitClosed
    /\ doneClosed => wpc = "exited"
    /\ (kpc = "returned" /\ wpc = "select") => ENABLED WorkerQuit

\* A terminated worker stays terminated and services nothing.
ExitedIsFinal ==
    wpc = "exited" =>
        /\ wpc' = "exited"
        /\ ~WorkerActs
        /\ snapshot' = snapshot /\ file' = file /\ cur' = cur

\* C12 as amended: after Close has returned the quit channel is closed and
\* the worker terminates when its select takes it; a worker that
\* acknowledged the stop request has already terminated; and once the
\* worker has terminated it services no request: no snapshot replacement
\* and no disk write happens from then on.
C12_TerminatedServesNothing == []CloseLeavesQuit /\ [][ExitedIsFinal]_vars

\* Close has returned on its timeouts, the worker has since serviced a Save
\* and then terminated through quit, and a later call is left waiting.
C12_Witness ==
    /\ kpc = "returned"
    /\ ~doneClosed
    /\ wpc = "exited"
    /\ Len(hist) >= 2

\* The file could not be loaded, or is not there.
NothingToLoad(f) == ~f.exists \/ TodoLoad(f).err # "nil"

\* No Save has been taken on yet: the file is the one found at startup.
BeforeFirstSave == wpc # "boot" /\ Len(hist) = 1

\* The startup load is not fatal and gives the snapshot: the list of the
\* file, or the empty list when there is nothing to load; a Load answered
\* from it returns that list without error.
StartupSnapshot ==
    /\ wpc # "exited"
    /\ wpc # "boot" => ~snapshot.nil
    /\ BeforeFirstSave =>
        /\ NothingToLoad(file) => Deref(heap, snapshot) = EmptyVal
        /\ ~NothingToLoad(file) =>
                Deref(heap, snapshot).items = TodoLoad(file).val.items
    /\ \A q \in Callers :
        (cop[q] = "load" /\ cpc[q] = "done") =>
            /\ cres[q] = "nil"
            /\ ~clist[q].nil
            /\ (BeforeFirstSave /\ NothingToLoad(file)) => Held(q) = EmptyVal

\* After the startup load only a Save request replaces the snapshot.
LoadedOnce ==
    /\ wpc' = "boot" => wpc = "boot"
    /\ (wpc # "boot" /\ snapshot' # snapshot) => wpc = "set"

\* C13: the worker loads the snapshot from disk exactly once, at startup;
\* a missing file, a read failure and a decode failure are not fatal and
\* give an empty snapshot, after which Load returns an empty list without
\* error.
C13_StartupLoad == []StartupSnapshot /\ [][LoadedOnce]_vars

\* Load has returned the empty list from a store that was started on a
\* file it could not read.
C13_Witness ==
    \E q \in Callers :
        /\ Loaded(q)
        /\ Held(q) = EmptyVal
        /\ BeforeFirstSave
        /\ TodoLoad(file).err = "read"

\* The list the editing goroutine holds, and the one it passed to the call
\* made last.
Now == Held(Editor).items
Before == dom.prev.items

\* The IDs of a list.
IDs(items) == {items[i].id : i \in 1..Len(items)}

\* Descriptions that are empty after trimming, and the statuses that are
\* one of the three values when case is ignored, with what they are in
\* lower case.
Blank == {"", " "}
Allowed == {"not started", "StArTeD", "COMPLETED"}
Lowered(st) ==
    CASE st = "StArTeD" -> "started"
      [] st = "COMPLETED" -> "completed"
      [] OTHER -> "not started"
Trimmed(d) == IF d = " tea " THEN "tea" ELSE d

\* The call made last was op, and it returned this error.
Last(op, err) == dom.op = op /\ dom.err = err

\* The call made last changed nothing: it returned the list it was given,
\* and that list holds what it held.
Untouched ==
    /\ clist[Editor] = dom.in
    /\ Held(Editor) = dom.prev
    /\ dom.item = NoItem

\* C14: starting from the empty list, after any sequence of Add,
\* UpdateDescription, UpdateStatus and Delete calls, successful or not, the
\* IDs of the list are pairwise distinct and at least 1, no description is
\* empty after trimming, and every status is one of the three lowercase
\* values.
C14_ListInvariant ==
    /\ \A i, j \in 1..Len(Now) : i # j => Now[i].id # Now[j].id
    /\ \A i \in 1..Len(Now) :
        /\ Now[i].id >= 1
        /\ Now[i].desc \notin Blank
        /\ Now[i].status \in {"not started", "started", "completed"}

\* Two items are in the list, one was added with padding around its
\* description and with a mixed-case status, and the call made last failed.
C14_Witness ==
    /\ Len(Now) = 2
    /\ \E i \in 1..Len(Now) : Now[i].desc = "tea" /\ Now[i].status = "started"
    /\ dom.err \notin {"nil", "none"}

\* The largest number of a non-empty set.
Largest(S) == CHOOSE n \in S : \A m \in S : m <= n

\* C15: a successful Add gives the new item the ID max(IDs of the input
\* list) + 1, or 1 for an empty list: an ID above every ID of that list.
C15_NextID ==
    Last("add", "nil") =>
        /\ dom.item.id = (IF Before = <<>> THEN 1 ELSE Largest(IDs(Before)) + 1)
        /\ \A n \in IDs(Before) : dom.item.id > n
        /\ Now[Len(Now)] = dom.item

\* Add has given ID 4 to a list that held IDs 1 and 3 only.
C15_Witness ==
    /\ Last("add", "nil")
    /\ IDs(Before) = {1, 3}
    /\ dom.item.id = 4

\* C16 as stated: the ID each Add assigns is strictly greater than the ID
\* every earlier Add assigned, so no ID is ever assigned twice.
C16_Original ==
    \A i, j \in 1..Len(dom.assigned) :
        i < j => dom.assigned[i] < dom.assigned[j]

\* C16 as amended: across Adds and Deletes the IDs of the list stay unique,
\* and every item that an Add created has an ID strictly greater than the
\* ID of every item before it in the list (the ID an Add assigns is above
\* every ID in the list at that moment, not above every ID assigned
\* earlier).
C16_UniqueInList ==
    \A i, j \in 1..Len(Now) :
        i < j =>
            /\ Now[i].id # Now[j].id
            /\ Now[j].created.mono => Now[j].id > Now[i].id

\* An Add has assigned an ID again that an earlier Add had assigned to an
\* item deleted since, to a list that holds other items.
C16_Witness ==
    /\ Last("add", "nil")
    /\ Len(dom.assigned) >= 2
    /\ dom.assigned[Len(dom.assigned)] = dom.assigned[Len(dom.assigned) - 1]
    /\ Len(Now) >= 2

\* C17: Add validates first: with a description that is empty after
\* trimming or a status that is none of the three values (case ignored) it
\* returns an error, no item, and the list unchanged; otherwise it appends
\* exactly one item, with the trimmed description and the lowercased status.
C17_AddValidates ==
    dom.op = "add" =>
        IF dom.desc \in Blank \/ dom.status \notin Allowed
        THEN /\ dom.err \in {"empty description", "invalid status"}
             /\ Untouched
        ELSE /\ dom.err = "nil"
             /\ Len(Now) = Len(Before) + 1
             /\ SubSeq(Now, 1, Len(Before)) = Before
             /\ Now[Len(Now)] = dom.item
             /\ dom.item.desc = Trimmed(dom.desc)
             /\ dom.item.status = Lowered(dom.status)

\* Add has stored "StArTeD" as "started" and " tea " as "tea", behind the
\* items that were there.
C17_Witness ==
    /\ Last("add", "nil")
    /\ dom.desc = " tea " /\ dom.status = "StArTeD"
    /\ Now[Len(Now)].desc = "tea" /\ Now[Len(Now)].status = "started"
    /\ Len(Before) >= 1

\* C18: Delete with an ID that no item has returns the not-found error and
\* the list unchanged.
C18_DeleteMissing ==
    (dom.op = "delete" /\ dom.id \notin IDs(Before)) =>
        /\ dom.err = "not found"
        /\ Untouched

\* Delete of an absent ID has failed on a list of two items.
C18_Witness ==
    /\ Last("delete", "not found")
    /\ Len(Before) = 2
    /\ Now = Before

\* C19: UpdateDescription with a description that is empty after trimming,
\* and UpdateStatus with a status outside the three values, return a
\* validation error and change no field of any item, also when the ID
\* exists.
C19_UpdateValidates ==
    /\ (dom.op = "desc" /\ dom.desc \in Blank) =>
            dom.err = "empty description" /\ Untouched
    /\ (dom.op = "status" /\ dom.status \notin Allowed) =>
            dom.err = "invalid status" /\ Untouched

\* An update of an item that exists has been rejected for its status.
C19_Witness ==
    /\ Last("status", "invalid status")
    /\ dom.id \in IDs(Before)
    /\ Len(Before) >= 2

\* The items of a list without those of one ID, in the same order.
RECURSIVE Without(_, _)
Without(items, id) ==
    IF items = <<>> THEN <<>>
    ELSE IF Head(items).id = id THEN Without(Tail(items), id)
    ELSE <<Head(items)>> \o Without(Tail(items), id)

\* A Delete of an ID that the list holds removes exactly that item.
DeleteRemovesOne ==
    (dom.op = "delete" /\ dom.id \in IDs(Before)) =>
        /\ dom.err = "nil"
        /\ Len(Now) = Len(Before) - 1
        /\ Now = Without(Before, dom.id)

\* A Delete that follows a successful Delete of the same ID fails.
SecondDeleteFails ==
    (Last("delete", "nil") /\ dom'.calls > dom.calls
        /\ dom'.op = "delete" /\ dom'.id = dom.id) =>
            dom'.err = "not found"

\* C20: a successful Delete returns the list without the one item of that
\* ID: one shorter, the other items unchanged and in the same order; a
\* second Delete of the same ID returns the not-found error.
C20_DeleteOne == []DeleteRemovesOne /\ [][SecondDeleteFails]_vars

\* The middle one of three items has been deleted.
C20_Witness ==
    /\ Last("delete", "nil")
    /\ Len(Before) = 3
    /\ dom.id = Before[2].id
    /\ Now = <<Before[1], Before[3]>>

\* The place of the item that an update writes: the first one with the ID.
Place(items, id) == CHOOSE i \in 1..Len(items) :
                        /\ items[i].id = id
                        /\ \A k \in 1..(i - 1) : items[k].id # id

\* C21: a successful UpdateDescription changes only the description of the
\* item with the given ID, a successful UpdateStatus only its status: the
\* item's id and created_at, every field of every other item, the length
\* and the order of the list are what they were.
C21_UpdateFrame ==
    /\ Last("desc", "nil") =>
        /\ dom.id \in IDs(Before)
        /\ Now = [Before EXCEPT ![Place(Before, dom.id)].desc = Trimmed(dom.desc)]
    /\ Last("status", "nil") =>
        /\ dom.id \in IDs(Before)
        /\ Now = [Before EXCEPT ![Place(Before, dom.id)].status = Lowered(dom.status)]

\* The first of two items has a new description, the second one is as it
\* was.
C21_Witness ==
    /\ Last("desc", "nil")
    /\ Len(Before) = 2
    /\ dom.id = Before[1].id
    /\ Now[1].desc # Before[1].desc
    /\ Now[1].created = Before[1].created
    /\ Now[2] = Before[2]

\* C22: the four operations change nothing that the caller passed in: when
\* Add, UpdateDescription, UpdateStatus or Delete has returned, the list
\* passed in holds the items it held before the call, field by field.
C22_SideEffectFree ==
    dom.op # "none" => Deref(heap, dom.in).items = Before

\* C27: validation comes before the lookup: UpdateStatus with an invalid
\* status and UpdateDescription with an empty description return the
\* validation error also when no item has the ID; Add with an empty
\* description and an invalid status reports the description; the
\* not-found error is returned only for valid input.
C27_ValidationFirst ==
    /\ (dom.op = "status" /\ dom.status \notin Allowed) => dom.err = "invalid status"
    /\ (dom.op \in {"desc", "add"} /\ dom.desc \in Blank) => dom.err = "empty description"
    /\ dom.err = "not found" =>
        /\ dom.op \in {"status", "desc", "delete"}
        /\ dom.id \notin IDs(Before)
        /\ dom.op = "status" => dom.status \in Allowed
        /\ dom.op = "desc" => dom.desc \notin Blank

\* An update of an ID that no item of the list has was rejected for its
\* status.
C27_Witness ==
    /\ Last("status", "invalid status")
    /\ dom.id \notin IDs(Before)
    /\ Len(Before) >= 1
    /\ Untouched

\* Goroutine q makes its call of todo.Load in this step.
LoadStep(q) == cpc[q] = "idle" /\ cop'[q] = "load" /\ cpc'[q] = "done"

\* Goroutine p makes its call of todo.Save in this step.
SaveStep(p) == cpc[p] = "idle" /\ cop'[p] = "save"

\* todo.Save of p has returned nil, and no other goroutine has written to
\* the path before or since.
OnlySave(p) ==
    /\ SaveDone(p)
    /\ cres[p] = "nil"
    /\ \A r \in Callers \ {p} : cop[r] # "save"

\* A Load that follows the only Save returns what was saved.
RoundTrip ==
    \A p, q \in Callers :
        (OnlySave(p) /\ LoadStep(q) /\ file.readable) =>
            /\ fres'[q].err = "nil"
            /\ ListSame(fres'[q].val.items, sentVal[p].items)

\* A Save on a path whose directory is not there creates the directory and
\* the file.
SaveMakesDir ==
    \A p \in Callers :
        (SaveStep(p) /\ file.dir = "none") =>
            /\ file'.dir = "made"
            /\ file'.exists
            /\ cpc'[p] = "f_write"

\* C23: Save(list, path) followed by Load(path), with no write in between,
\* returns a list of the same length and order whose items have the same
\* id, description, status and created_at instant; so it is when the
\* directories of the path did not exist before the Save.
C23_RoundTrip == [][RoundTrip /\ SaveMakesDir]_vars

\* Two items, saved with a monotonic clock reading in their created_at to a
\* path whose directory the Save made, have come back from Load.
C23_Witness ==
    \E p, q \in Callers :
        /\ OnlySave(p)
        /\ Len(sentVal[p].items) = 2
        /\ sentVal[p].items[1].created.mono
        /\ file.dir = "made"
        /\ FLoaded(q)
        /\ fres[q].err = "nil"
        /\ fres[q].val.items # sentVal[p].items
        /\ ListSame(fres[q].val.items, sentVal[p].items)

\* The documents that json.Unmarshal decodes into a list of items.
Documents ==
    { <<Null>>, <<LB, RB>>, SeedFile.data }
        \cup { <<LB>> \o MarshalItems(sampleItems(p)) \o <<RB>> : p \in Callers }

\* What Load returns depends on the path as follows.
LoadOutcome ==
    \A q \in Callers :
        LoadStep(q) =>
            /\ (~file.exists \/ (file.readable /\ file.data = <<>>)) =>
                    fres'[q] = [err |-> "nil", val |-> Val(FALSE, <<>>)]
            /\ (file.exists /\ ~file.readable) =>
                    fres'[q].err # "nil" /\ fres'[q].val = Val(TRUE, <<>>)
            /\ (file.exists /\ file.readable /\ file.data # <<>>
                    /\ file.data \notin Documents) =>
                    fres'[q].err # "nil" /\ fres'[q].val = Val(TRUE, <<>>)

\* C24: Load of a path with no file and Load of a zero-byte file return an
\* empty list and no error; any other failure to read, and content that
\* does not decode, return an error and no list.
C24_LoadOutcomes == [][LoadOutcome]_vars

\* One Load has failed on the damaged file; after a Save truncated the
\* file another Load has read zero bytes and returned the empty list.
C24_Witness ==
    \E q1, q2 \in Callers :
        /\ FLoaded(q1) /\ fres[q1] = [err |-> "decode", val |-> Val(TRUE, <<>>)]
        /\ FLoaded(q2) /\ fres[q2] = [err |-> "nil", val |-> Val(FALSE, <<>>)]
        /\ file.exists /\ file.data = <<>>

\* The Load of q went through the ActorStore / was a call of todo.Load.
ActorLoaded(q) == Loaded(q) /\ fres[q].err = "none"
FileLoaded(q) == FLoaded(q) /\ fres[q].err = "nil"

ActorNeverNil == \A q \in Callers : ActorLoaded(q) => ~clist[q].nil

\* todo.Load returns a nil list without an error exactly when the file holds
\* the document null.
FileNilForNull ==
    \A q \in Callers :
        LoadStep(q) =>
            ((fres'[q].err = "nil" /\ fres'[q].val.nil)
                <=> (file.exists /\ file.readable /\ file.data = <<Null>>))

Replying == wpc \in {"get", "set_reply"}

\* The send of a reply can always proceed: the buffer of the reply channel
\* is free while its caller still waits, and nobody needs to receive.
ReplyNeverBlocks ==
    /\ wpc = "get" => ENABLED WorkerGet
    /\ wpc = "set_reply" => ENABLED WorkerSetReply
    /\ (Replying /\ cpc[cur.p] = "select2") => ~mbox[cur.p].full

\* A reply is only ever held by the channel of a caller that waits for it:
\* the reply to a caller that has given up reaches nobody.
RepliesWaitedFor == \A p \in Callers : mbox[p].full => cpc[p] = "select2"

\* C28: the worker never blocks while replying: the reply channel of a call
\* has capacity 1, so the reply to a caller that has returned on cancellation
\* is sent all the same and the worker can go on to its next request.
C28_ReplyNeverBlocks == ReplyNeverBlocks /\ RepliesWaitedFor

\* The worker is about to answer a Load whose caller has returned with the
\* cancellation error, while the other caller waits to hand its request
\* over.
C28_Witness ==
    \E q \in Callers :
        /\ wpc = "get"
        /\ cur.p # q
        /\ cpc[cur.p] = "done" /\ cres[cur.p] = "cancelled"
        /\ cpc[q] = "select1"

\* Until the startup load has finished no request has reached the worker.
NothingBeforeBoot ==
    wpc = "boot" =>
        /\ cur = NoMsg
        /\ hist = <<>>
        /\ snapshot = NilSlice
        /\ \A p \in Callers : cpc[p] \in {"idle", "select1"} /\ ~mbox[p].full

\* A request is handed over only to a worker in its select, and the
\* startup load is the first thing that assigns the snapshot.
BootFirst ==
    /\ (\E p \in Callers : cpc[p] = "select1" /\ cpc'[p] = "select2") => wpc = "select"
    /\ (wpc = "boot" /\ wpc' # "boot") => (hist = <<>> /\ Len(hist') = 1)
    /\ wpc # "boot" => wpc' # "boot"

\* C29: no Load or Save is serviced before the startup load of the worker
\* has finished, so the snapshot a Save installs is never overwritten
\* afterwards by the startup load.
C29_BootBeforeService == []NothingBeforeBoot /\ [][BootFirst]_vars

\* The worker has loaded the list of the file and then serviced a Save: the
\* list of the Save is the snapshot, not the one loaded from the file.
C29_Witness ==
    /\ wpc = "select"
    /\ Len(hist) = 2
    /\ hist[1].items # <<>>
    /\ Deref(heap, snapshot) = hist[2]
    /\ Deref(heap, snapshot).items # hist[1].items

\* The Save of p was serviced, and no Save after it.
LastSaver(p) == cop[p] = "save" /\ gotVer[p] = Len(hist)

\* The file decodes to this list.
OnDisk(v) ==
    /\ TodoLoad(file).err = "nil"
    /\ ListSame(TodoLoad(file).val.items, v.items)

Responds(p) == web[p].pc # "done" /\ web'[p].pc = "done"

\* The list the store holds when the handler of p loads it (and no list
\* when the Load fails), and whether the Save of the handler fails.
Stored == TodoLoad(file).val.items
LoadFails(p) == web[p].pc = "idle" /\ TodoLoad(file).err # "nil"
SaveFails(p) == web'[p].saved = "failed"

\* The request that p answers in this step.
Answered(p) == web'[p].req

\* The input of the request is valid: a body that decodes, a numeric id,
\* a description and a status that the todo functions take, and for an
\* update at least one of them.
GoodInput(r) ==
    /\ r.json
    /\ r.q # "bad"
    /\ r.route = "add" => r.desc = "milk" /\ r.status = "StArTeD"
    /\ r.route = "update" =>
            /\ r.desc \in {"none", "milk"}
            /\ r.status \in {"none", "COMPLETED"}
            /\ r.desc # "none" \/ r.status # "none"
    /\ r.route \in {"update", "delete"} => r.id # 0

\* The request fails validation: its body does not decode, its description
\* is blank (or an Add has none), or its status is none of the three.
BadInput(r) ==
    \/ ~r.json
    \/ r.route = "add" /\ (r.desc \in {"none", " "} \/ r.status = "done")
    \/ r.route = "update" /\ (r.desc = " " \/ r.status = "done")

\* The request names an ID, and no item of the stored list has it.
NamesMissingID(p, r) ==
    /\ r.route \in {"get", "update", "delete"}
    /\ r.q = "num"
    /\ r.id # 0
    /\ r.id \notin IDs(IF web[p].pc = "idle" THEN Stored ELSE Held(p).items)

\* A failure of the store is answered with 500.
StoreFailure500 ==
    \A p \in Callers :
        (Responds(p) /\ Allows(Answered(p).route, Answered(p).method)
            /\ GoodInput(Answered(p)) /\ (LoadFails(p) \/ SaveFails(p))) =>
                web'[p].status = 500

\* A validation failure is answered with 400.
Validation400 ==
    \A p \in Callers :
        (Responds(p) /\ Allows(Answered(p).route, Answered(p).method)
            /\ BadInput(Answered(p)) /\ ~LoadFails(p)
            /\ ~NamesMissingID(p, Answered(p))) =>
                web'[p].status = 400

\* A request with valid input that names an ID no item has is answered
\* with 404.
MissingID404 ==
    \A p \in Callers :
        (Responds(p) /\ Allows(Answered(p).route, Answered(p).method)
            /\ GoodInput(Answered(p)) /\ ~LoadFails(p)
            /\ NamesMissingID(p, Answered(p))) =>
                web'[p].status = 404

\* C26: the handlers of /add, /update, /delete and /get answer a
\* validation failure with 400, a request that names an ID no item has
\* with 404, and a failure of the store's Load or Save with 500.
C26_UniformCodes == [][StoreFailure500 /\ Validation400 /\ MissingID404]_vars

\* Save of p has returned the cancellation error, and its context was
\* cancelled after the worker had taken the request.
CancelledAfterHandoff(p) ==
    /\ SaveDone(p)
    /\ cres[p] = "cancelled"
    /\ cancelled[p] = "handed"

\* C31: a Save that returns the cancellation error after its request was
\* handed to the worker is serviced all the same: its list becomes the
\* snapshot and is written to disk (unless the disk fails), so the
\* cancellation error does not tell that the store is unchanged.
C31_CancelledYetStored ==
    \A p \in Callers :
        CancelledAfterHandoff(p) =>
            /\ (cur.p = p /\ wpc \in {"save", "w_open", "w_write", "set_reply"}) =>
                    Deref(heap, snapshot) = sentVal[p]
            /\ (cur.p = p /\ wpc = "set_reply" /\ wstat[p] = "written") =>
                    OnDisk(sentVal[p])
            /\ cur.p # p =>
                    /\ wstat[p] \in {"written", "failed"}
                    /\ \E k \in 2..Len(hist) : hist[k] = sentVal[p]

\* Save has returned the cancellation error; the worker is idle again, and
\* the list of that Save is the snapshot and is in the file, which held
\* the seed before.
C31_Witness ==
    \E p \in Callers :
        /\ CancelledAfterHandoff(p)
        /\ wpc = "select"
        /\ Len(hist) = 2
        /\ Deref(heap, snapshot) = sentVal[p]
        /\ OnDisk(sentVal[p])
        /\ ~OnDisk(hist[1])

\* The worker goroutine has returned.
Terminated == wpc = "exited"

\* Goroutine p is in the first select of Load or Save.
Sending(p) == cpc[p] = "select1"

\* The worker does not come back, and a caller does not leave its first
\* select while its context is live.
StaysBlocked ==
    /\ Terminated => Terminated'
    /\ \A p \in Callers :
        (Terminated /\ Sending(p) /\ cancelled[p] = "no" /\ cancelled'[p] = "no") =>
            Sending(p)'

\* With the worker gone the hand-off is not possible and no case of the
\* first select is ready until the context is done; then only the
\* ctx.Done() case is.
NothingReceives ==
    \A p \in Callers :
        (Terminated /\ Sending(p)) =>
            /\ ~ENABLED Handoff(p)
            /\ cancelled[p] = "no" => ~ENABLED ReturnCancelled(p)
            /\ cancelled[p] # "no" => ENABLED ReturnCancelled(p)

\* A call that returns after the worker has terminated returns the
\* cancellation error of its context, a Load with a nil list.
ReturnsCancellation ==
    \A p \in Callers :
        (Terminated /\ Sending(p) /\ ~Sending(p)') =>
            /\ cancelled[p] # "no"
            /\ cpc'[p] = "done"
            /\ cres'[p] = CtxErr
            /\ cop[p] = "load" => clist'[p] = NilSlice
            /\ UNCHANGED <<file, snapshot, hist>>

\* C32: once the worker has terminated nothing receives on cmds: a Load or
\* Save whose context is not cancelled stays in its first select for ever,
\* and one whose context is cancelled returns the cancellation error and
\* no data.
C32_BlockedAfterExit ==
    /\ []NothingReceives
    /\ [][StaysBlocked /\ ReturnsCancellation]_vars

\* Close has closed quit, the worker has returned, and a caller with a live
\* context waits in its first select.
C32_Witness ==
    /\ Terminated
    /\ quitClosed
    /\ \E p \in Callers :
        /\ Sending(p)
        /\ cancelled[p] = "no"
        /\ ~ENABLED Handoff(p)

\* The Close calls that are about to execute close(s.quit): 0 stands for
\* the first goroutine calling Close.
AtCloseQuit ==
    {p \in Callers : cpc[p] = "k_closing"} \cup (IF kpc = "closing" THEN {0} ELSE {})

\* The Close calls that have returned.
ClosesReturned ==
    {p \in Callers : cop[p] = "close" /\ cpc[p] = "done" /\ cres[p] = "nil"}
        \cup (IF kpc = "returned" THEN {0} ELSE {})

\* The Close calls that have panicked.
ClosesPanicked ==
    {p \in Callers : cop[p] = "close" /\ cpc[p] = "done" /\ cres[p] = "panic"}
        \cup (IF kpc = "panicked" THEN {0} ELSE {})

\* close(s.quit) has no guard: the step is possible whenever a Close has
\* reached it; and no Close waits for ever in one of its selects.
CloseUnconditional ==
    /\ kpc = "closing" => ENABLED CloseQuit
    /\ kpc = "select1" => ENABLED CloseTimeout1
    /\ kpc = "select2" => ENABLED CloseTimeout2
    /\ \A p \in Callers :
        /\ cpc[p] = "k_closing" => ENABLED CloserQuit(p)
        /\ cpc[p] = "k_select1" => ENABLED CloserTimeout1(p)
        /\ cpc[p] = "k_select2" => ENABLED CloserTimeout2(p)

\* At most one Close returns, and quit is closed once one has.
OneCloseReturns ==
    /\ Cardinality(ClosesReturned) <= 1
    /\ ClosesReturned # {} => quitClosed

\* A close(s.quit) executed when quit is closed panics; one executed when
\* it is open closes it and returns.
SecondClosePanics ==
    \A c \in AtCloseQuit :
        c \notin AtCloseQuit' =>
            /\ quitClosed => c \in ClosesPanicked'
            /\ ~quitClosed => c \in ClosesReturned' /\ quitClosed'

\* C33: Close is not idempotent: every Close reaches close(s.quit) and
\* executes it without a guard, so of several Close calls on one store, in
\* sequence or at the same time, the first to get there closes quit and
\* returns and every later one panics.
C33_SecondClosePanics ==
    /\ [](CloseUnconditional /\ OneCloseReturns)
    /\ [][SecondClosePanics]_vars

\* One Close has returned and another one has panicked.
C33_Witness ==
    /\ Cardinality(ClosesReturned) = 1
    /\ ClosesPanicked # {}

\* A todo.Save on the path that did not go through the store has returned.
OutsideSaved(p) ==
    /\ SaveDone(p)
    /\ cres[p] = "nil"
    /\ gotVer[p] = -1
    /\ wstat[p] = "none"

\* What the worker holds is the startup snapshot or the list of the Save
\* it serviced last, and every Load of the store has returned the one that
\* was current when it was serviced.
LoadsFromSnapshot ==
    /\ wpc # "boot" =>
        /\ Len(hist) >= 1
        /\ Deref(heap, snapshot).items = hist[Len(hist)].items
    /\ \A q \in Callers :
        ActorLoaded(q) =>
            /\ gotVer[q] \in 1..Len(hist)
            /\ Held(q).items = hist[gotVer[q]].items

\* After startup the snapshot changes only when a Save is taken up: no step
\* of another writer of the file, and no Load, changes it.
SnapshotFrame ==
    (wpc # "boot" /\ (hist' # hist \/ Deref(heap, snapshot)' # Deref(heap, snapshot))) =>
        /\ wpc = "set"
        /\ hist' = Append(hist, cur.sent)

\* The open of a serviced Save empties the file whatever another writer
\* left in it, and its write, when nothing was written in between, leaves
\* the snapshot in the file.
SaveOverwrites ==
    /\ (wpc = "w_open" /\ wpc' = "w_write") => file'.data = <<>>
    /\ (wpc = "w_write" /\ file.data = <<>> /\ wstat'[cur.p] = "written") =>
            /\ file'.data = Marshal(Deref(heap, snapshot))
            /\ OnDisk(hist[Len(hist)])'

\* C34: after startup the store never reads the file: every Load returns
\* the startup snapshot or the list of the most recently serviced Save of
\* this store, so what another writer puts into the file is not seen by
\* Load, and the next Save of the store overwrites it.
C34_FileNeverReread ==
    /\ []LoadsFromSnapshot
    /\ [][SnapshotFrame /\ SaveOverwrites]_vars

\* Another writer has saved its list to the path, a Save of the store has
\* returned nil after it, and the file holds the list of the store.
C34_Witness ==
    \E p, q \in Callers :
        /\ OutsideSaved(p)
        /\ ~sentVal[p].nil
        /\ SaveDone(q) /\ cres[q] = "nil" /\ gotVer[q] = 2
        /\ sentVal[q].items # sentVal[p].items
        /\ OnDisk(sentVal[q])
        /\ Deref(heap, snapshot).items = sentVal[q].items

\* The list the store of the handlers holds.
StoreHolds == IF ActorBacked THEN Deref(heap, snapshot).items ELSE Stored

\* The handler of p has answered an /add with 201.
Added(p) ==
    /\ web[p].pc = "done"
    /\ web[p].req.route = "add"
    /\ web[p].status = 201

\* The positions of the stored list that hold an item with this ID.
StoredAs(id) == {i \in 1..Len(StoreHolds) : StoreHolds[i].id = id}

\* No two stored items have one ID; so of two /add requests that were
\* answered with the same ID at most one item is stored.
OneItemPerID ==
    /\ \A id \in IDs(StoreHolds) : Cardinality(StoredAs(id)) = 1
    /\ \A p, q \in Callers :
        (p # q /\ Added(p) /\ Added(q) /\ web[p].id = web[q].id) =>
            Cardinality(StoredAs(web[p].id)) <= 1

\* The Save of an /add stores the list its handler loaded plus the new
\* item, whatever the store holds by then.
SaveOfLoaded ==
    \A p \in Callers :
        (web[p].pc = "loaded" /\ web[p].req.route = "add" /\ web'[p].saved = "ok") =>
            LET old == Held(p).items
            IN /\ Len(StoreHolds') = Len(old) + 1
               /\ ListSame(SubSeq(StoreHolds', 1, Len(old)), old)
               /\ StoreHolds'[Len(old) + 1].id = web'[p].id
               /\ web'[p].id \notin IDs(old)
               /\ web'[p].status = 201

Refuses(p) == Responds(p) /\ web'[p].status \in 400..499

\* C36 as stated: a request answered with a 4xx status has not called Save
\* and the stored list is as it was.
C36_Original ==
    [][\A p \in Callers : Refuses(p) => web'[p].saved = "no" /\ file' = file]_vars

\* Server.handleUpdate with a body that has an id and neither description
\* nor status, when no loaded item has the id: nothing fails before the
\* Save.
EmptyUpdateOfMissing(p) ==
    /\ web[p].impl = "server"
    /\ web[p].pc = "loaded"
    /\ web[p].req.route = "update"
    /\ web[p].req.desc = "none" /\ web[p].req.status = "none"
    /\ web[p].req.id \notin IDs(Held(p).items)

\* A 4xx response is written before any Save and the file is as it was;
\* only the 404 of Server.handleUpdate for an update without fields comes
\* after a Save, which has written the list as the handler loaded it.
NoSaveBefore4xx ==
    \A p \in Callers :
        Refuses(p) =>
            IF EmptyUpdateOfMissing(p)
            THEN /\ web'[p].status = 404
                 /\ web'[p].saved = "ok"
                 /\ ListSame(Stored', Held(p).items)
            ELSE /\ web'[p].saved = "no"
                 /\ file' = file

\* C36: a request answered with a 4xx status has not called Save and the
\* stored list is as it was, also after an /update whose description was
\* applied to the loaded copy before its status was rejected; the one
\* exception is the 404 of Server.handleUpdate for an update that names no
\* field and an ID that no item has, written after a Save of the loaded
\* list.
C36_NoSaveOn4xx == [][NoSaveBefore4xx]_vars

\* An /update of a stored item with a valid description and a status that
\* is none of the three has been answered 400; nothing was saved and no
\* stored item has the new description.
C36_Witness ==
    \E p \in Callers :
        /\ web[p].pc = "done"
        /\ web[p].req.route = "update"
        /\ web[p].req.desc = "milk" /\ web[p].req.status = "done"
        /\ web[p].req.id \in IDs(Stored)
        /\ web[p].status = 400
        /\ web[p].saved = "no"
        /\ \A i \in 1..Len(Stored) : Stored[i].desc # "milk"

====
